---- MODULE Spec2Model ----
(***************************************************************************)
(* Model of the hhuTOS kernel heap: the free-list allocator                *)
(* (kernel/allocator/list.rs), the bump allocator                          *)
(* (kernel/allocator/bump.rs) and the locked GlobalAlloc entry points      *)
(* through which every allocation of the kernel passes.                    *)
(*                                                                         *)
(* Addresses and sizes are byte values.  The free list is intrusive: the   *)
(* variable mem holds, for every address at which a ListNode currently     *)
(* lives, the node's fields {size, next}; head_next is head.next of the    *)
(* allocator's sentinel.  Memory owned by the client holds no node.        *)
(***************************************************************************)
EXTENDS Integers, Sequences, FiniteSets, TLC

(***************************************************************************)
(* Bounds of the model                                                     *)
(***************************************************************************)
\* the heap is HeapWords * 8 bytes long
HeapWords == 8
\* requested sizes are the multiples of 8 up to 8 * MaxSizeWords
MaxSizeWords == 3
\* requested alignments are the powers of two from 8 to 2^MaxAlignLog
MaxAlignLog == 4
\* the bump strategy's allocation counter is followed up to MaxAllocs
MaxAllocs == 3
\* largest representable address (usize), scaled down to 16 bits
USIZE_MAX == 65535
\* calls of the CGA functions followed in one behaviour
MaxCalls == 3
\* allocator calls that print to the screen, followed in one behaviour
MaxConsoleCalls == 1

(***************************************************************************)
(* Program constants                                                       *)
(***************************************************************************)
\* ptr::null_mut()
NULL == 0
\* mem::align_of::<ListNode>()
ALIGN_OF_LISTNODE == 8
\* mem::size_of::<ListNode>()
SIZE_OF_LISTNODE == 16

\* devices/cga.rs: the screen geometry, the standard attribute (white on
\* black), the blank and the newline character
CGA_ROWS == 25
CGA_COLUMNS == 80
CGA_STD_ATTR == 15
BLANK == 32
NEWLINE == 10
\* enum Color: the colours the callers of println! write with
Black == 0
LightGreen == 10
LightRed == 12
White == 15
\* the background println! writes on
BG_COLOR == Black

RECURSIVE Pow2(_)
Pow2(k) == IF k = 0 THEN 1 ELSE 2 * Pow2(k - 1)

Max(a, b) == IF a >= b THEN a ELSE b

HeapStarts == {4096, 4104}
HeapSize == 8 * HeapWords
\* a heap at the top of the address space: the highest 8-aligned heap on
\* which align_up stays representable for every requested alignment
HighHeapEnd == 8 * ((USIZE_MAX - Pow2(MaxAlignLog)) \div 8)
HighHeapStart == HighHeapEnd - HeapSize
ReqSizes == {8 * k : k \in 1..MaxSizeWords}
ReqAligns == {Pow2(k) : k \in 3..MaxAlignLog}

Contexts == {"main", "irq"}
NoOwner == "none"

VARIABLES
    strategy,      \* "list" or "bump": the allocator behind the global entry point
    heap_start,    \* LinkedListAllocator.heap_start / BumpAllocator.heap_start
    heap_end,      \* LinkedListAllocator.heap_end / BumpAllocator.heap_end
    head_size,     \* LinkedListAllocator.head.size
    head_next,     \* LinkedListAllocator.head.next (NULL = None)
    mem,           \* address -> ListNode {size, next} written at that address
    next,          \* BumpAllocator.next
    allocations,   \* BumpAllocator.allocations
    inited,        \* init() has run
    lock,          \* owner of the Locked<...> mutex, or NoOwner
    pc,            \* position of each execution context in its GlobalAlloc call
    req,           \* the call each execution context is executing
    live,          \* client side: allocations returned and not yet released
    last,          \* the last completed strategy call and the free list before it
    before,        \* the completed call before the last one
    returned,      \* bump strategy: the successful allocations, in call order
    vram,          \* offset from CGA_BASE_ADDR -> byte, for the bytes written so far
    crt,           \* cursor location registers 14 (high) and 15 (low) of the CGA
    cga,           \* the last completed CGA call
    FG_COLOR       \* cga_print::FG_COLOR, the foreground colour println! writes with

vars == <<strategy, heap_start, heap_end, head_size, head_next, mem, next,
          allocations, inited, lock, pc, req, live, last, before, returned,
          vram, crt, cga, FG_COLOR>>

\* no CGA call has been made and nothing is known of the screen; the cursor
\* registers hold 0
NoCgaCall == [op |-> "none", x |-> 0, y |-> 0, b |-> 0, attr |-> 0, pos |-> 0, n |-> 0]
CgaUntouched ==
    /\ vram = << >>
    /\ crt = [low |-> 0, high |-> 0]
    /\ cga = NoCgaCall
    /\ FG_COLOR = White

(***************************************************************************)
(* CGA text screen (devices/cga.rs).  vram holds the bytes written so far, *)
(* by offset from CGA_BASE_ADDR; a byte that was never written is unknown  *)
(* and has no entry.  crt holds the two cursor location registers behind   *)
(* the index and data ports.                                               *)
(***************************************************************************)
\* ptr.offset(o).write(b)
Poke(v, o, b) == (o :> b) @@ v

\* character as u8
as_u8(n) == n % 256

\* a show that refuses every coordinate outside the screen
show_InsideOnly(v, x, y, character, attrib) ==
    IF x >= CGA_COLUMNS \/ y >= CGA_ROWS
    THEN v
    ELSE LET pos == (y * CGA_COLUMNS + x) * 2
         IN  Poke(Poke(v, pos, as_u8(character)), pos + 1, attrib)

\* CGA::show
show(v, x, y, character, attrib) ==
    IF x > CGA_COLUMNS \/ y > CGA_ROWS
    THEN v
    ELSE LET pos == (y * CGA_COLUMNS + x) * 2
         IN  Poke(Poke(v, pos, as_u8(character)), pos + 1, attrib)

\* the 16-bit value of the cursor location registers
CursorIndex(c) == c.low + 256 * c.high

\* CGA::getpos
getpos(c) ==
    LET pos == CursorIndex(c)
    IN  [x |-> pos % CGA_COLUMNS, y |-> pos \div CGA_COLUMNS]

\* a setpos that stores the coordinates as they come
setpos_Unclamped(x, y) ==
    LET pos == (y * CGA_COLUMNS + x) % 65536
    IN  [low |-> pos % 256, high |-> (pos \div 256) % 256]

\* CGA::setpos: the registers after the call
setpos(x, y) ==
    LET x1 == IF x >= CGA_COLUMNS THEN CGA_COLUMNS - 1 ELSE x
        y1 == IF y >= CGA_ROWS THEN CGA_ROWS - 1 ELSE y
        pos == (y1 * CGA_COLUMNS + x1) % 65536
    IN  [low |-> pos % 256, high |-> (pos \div 256) % 256]

\* CGA::attribute
attribute(bg, fg, blink) ==
    ((bg % 8) * 16 + (fg % 16)) + (IF blink THEN 128 ELSE 0)

\* the loop "for x in 0..CGA_COLUMNS { show(x, y, ' ', CGA_STD_ATTR) }" over
\* the rows from..to: every cell of these rows passes the check of show
blank_rows(v, from, to) ==
    LET first == from * CGA_COLUMNS * 2
        end == (to + 1) * CGA_COLUMNS * 2
    IN  [o \in DOMAIN v \cup first..(end - 1) |->
            IF o >= first /\ o < end
            THEN IF o % 2 = 0 THEN as_u8(BLANK) ELSE CGA_STD_ATTR
            ELSE v[o]]

\* the inner loop of scrollup for row y: both bytes of every cell of row y
\* are copied to the cell above; an unknown byte stays unknown
copy_row_up(v, y) ==
    LET first == (y - 1) * CGA_COLUMNS * 2
        end == y * CGA_COLUMNS * 2
        row == 2 * CGA_COLUMNS
    IN  [o \in {d \in DOMAIN v : d < first \/ d >= end}
                   \cup {s - row : s \in {p \in DOMAIN v : p >= end /\ p < end + row}}
         |-> IF o >= first /\ o < end THEN v[o + row] ELSE v[o]]

\* the outer loop of scrollup, from row y on
RECURSIVE copy_rows_up(_, _)
copy_rows_up(v, y) ==
    IF y >= CGA_ROWS THEN v ELSE copy_rows_up(copy_row_up(v, y), y + 1)

\* a scrollup that copies the rows from the bottom to the top
RECURSIVE copy_rows_up_BottomFirst(_, _)
copy_rows_up_BottomFirst(v, y) ==
    IF y >= CGA_ROWS THEN v
    ELSE copy_row_up(copy_rows_up_BottomFirst(v, y + 1), y)

scrollup_BottomFirst(v) ==
    [vram |-> blank_rows(copy_rows_up_BottomFirst(v, 1), CGA_ROWS - 1, CGA_ROWS - 1),
     crt |-> setpos(0, CGA_ROWS - 1)]

\* CGA::scrollup
scrollup(v) ==
    [vram |-> blank_rows(copy_rows_up(v, 1), CGA_ROWS - 1, CGA_ROWS - 1),
     crt |-> setpos(0, CGA_ROWS - 1)]

\* CGA::clear
clear(v) ==
    [vram |-> blank_rows(v, 0, CGA_ROWS - 1), crt |-> setpos(0, 0)]

\* CGA::print_byte
print_byte(v, c, b, bg, fg, blink) ==
    LET p == getpos(c)
    IN  IF b = NEWLINE
        THEN LET y == p.y + 1
             IN  [vram |-> IF y >= CGA_ROWS THEN scrollup(v).vram ELSE v,
                  crt |-> setpos(0, y)]
        ELSE LET wrap == p.x >= CGA_COLUMNS
                 x == IF wrap THEN 0 ELSE p.x
                 y0 == IF wrap THEN p.y + 1 ELSE p.y
                 scroll == wrap /\ y0 >= CGA_ROWS
                 y == IF scroll THEN CGA_ROWS - 1 ELSE y0
                 v1 == IF scroll THEN scrollup(v).vram ELSE v
             IN  [vram |-> show(v1, x, y, b, attribute(bg, fg, blink)),
                  crt |-> setpos(x + 1, y)]

(***************************************************************************)
(* println!: the text goes to the CGA screen.  A text is the sequence of   *)
(* its bytes; the formatting of core::fmt is done digit by digit.          *)
(***************************************************************************)
\* {} of an unsigned integer
RECURSIVE Dec(_)
Dec(n) == IF n < 10 THEN <<48 + n>> ELSE Dec(n \div 10) \o <<48 + (n % 10)>>

\* {:x} of an unsigned integer
RECURSIVE LowerHex(_)
LowerHex(n) ==
    LET d == n % 16
        c == IF d < 10 THEN 48 + d ELSE 87 + d
    IN  IF n < 16 THEN <<c>> ELSE LowerHex(n \div 16) \o <<c>>

\* {:#x} of an unsigned integer and {:p} of a pointer: "0x" and the digits
AltHex(n) == <<48, 120>> \o LowerHex(n)

\* "Bump Allocator does not support deallocation"
TEXT_NO_DEALLOC ==
    <<66, 117, 109, 112, 32, 65, 108, 108, 111, 99, 97, 116, 111, 114, 32,
      100, 111, 101, 115, 32, 110, 111, 116, 32, 115, 117, 112, 112, 111,
      114, 116, 32, 100, 101, 97, 108, 108, 111, 99, 97, 116, 105, 111,
      110>>

\* "Bump Allocator Debug Info:"
TEXT_BUMP_INFO ==
    <<66, 117, 109, 112, 32, 65, 108, 108, 111, 99, 97, 116, 111, 114, 32,
      68, 101, 98, 117, 103, 32, 73, 110, 102, 111, 58>>

\* "  Heap start:   "
TEXT_HEAP_START ==
    <<32, 32, 72, 101, 97, 112, 32, 115, 116, 97, 114, 116, 58, 32, 32, 32>>

\* " Heap end:     "
TEXT_HEAP_END ==
    <<32, 72, 101, 97, 112, 32, 101, 110, 100, 58, 32, 32, 32, 32, 32>>

\* "  Next pointer: "
TEXT_NEXT_POINTER ==
    <<32, 32, 78, 101, 120, 116, 32, 112, 111, 105, 110, 116, 101, 114, 58,
      32>>

\* "  Used:         "
TEXT_USED ==
    <<32, 32, 85, 115, 101, 100, 58, 32, 32, 32, 32, 32, 32, 32, 32, 32>>

\* "  Free:         "
TEXT_FREE ==
    <<32, 32, 70, 114, 101, 101, 58, 32, 32, 32, 32, 32, 32, 32, 32, 32>>

\* "  Total:        "
TEXT_TOTAL ==
    <<32, 32, 84, 111, 116, 97, 108, 58, 32, 32, 32, 32, 32, 32, 32, 32>>

\* " bytes"
TEXT_BYTES ==
    <<32, 98, 121, 116, 101, 115>>

\* "  Allocations:  "
TEXT_ALLOCATIONS ==
    <<32, 32, 65, 108, 108, 111, 99, 97, 116, 105, 111, 110, 115, 58, 32,
      32>>

\* "--- Free List Dump ---"
TEXT_LIST_DUMP ==
    <<45, 45, 45, 32, 70, 114, 101, 101, 32, 76, 105, 115, 116, 32, 68,
      117, 109, 112, 32, 45, 45, 45>>

\* "Free block at "
TEXT_FREE_BLOCK_AT ==
    <<70, 114, 101, 101, 32, 98, 108, 111, 99, 107, 32, 97, 116, 32>>

\* " -> size: "
TEXT_SIZE ==
    <<32, 45, 62, 32, 115, 105, 122, 101, 58, 32>>

\* " (from "
TEXT_FROM ==
    <<32, 40, 102, 114, 111, 109, 32>>

\* " to "
TEXT_TO ==
    <<32, 116, 111, 32>>

\* ")"
TEXT_CLOSE ==
    <<41>>

\* "--- End of Free List ---"
TEXT_LIST_END ==
    <<45, 45, 45, 32, 69, 110, 100, 32, 111, 102, 32, 70, 114, 101, 101,
      32, 76, 105, 115, 116, 32, 45, 45, 45>>

\* the one element of a set of one element
The(S) == CHOOSE x \in S : TRUE

\* the writer behind print! and println!: the bytes s[lo..hi] of the text go
\* to print_byte, in order (the first half, and on the screen it leaves, the
\* second half)
\* fg is FG_COLOR as the writer reads it
RECURSIVE write_str(_, _, _, _, _, _)
write_str(v, c, fg, s, lo, hi) ==
    IF lo > hi THEN [vram |-> v, crt |-> c]
    ELSE IF lo = hi THEN print_byte(v, c, s[lo], BG_COLOR, fg, FALSE)
    ELSE LET mid == (lo + hi) \div 2
         IN  The({write_str(o.vram, o.crt, fg, s, mid + 1, hi) :
                    o \in {write_str(v, c, fg, s, lo, mid)}})

\* println!(text): the text and a newline
println(v, c, fg, s) == write_str(v, c, fg, s \o <<NEWLINE>>, 1, Len(s) + 1)

\* the println! calls of one function, one after the other
RECURSIVE println_all(_, _, _, _, _)
println_all(v, c, fg, texts, i) ==
    IF i > Len(texts) THEN [vram |-> v, crt |-> c]
    ELSE The({println_all(o.vram, o.crt, fg, texts, i + 1) :
                o \in {println(v, c, fg, texts[i])}})

(***************************************************************************)
(* super::align_up: smallest multiple of align that is >= addr             *)
(***************************************************************************)
align_up(addr, align) == ((addr + align - 1) \div align) * align

\* an addition that wraps around instead of reporting the overflow
checked_add_Wrapping(a, b) == [ok |-> TRUE, val |-> (a + b) % (USIZE_MAX + 1)]

\* usize::checked_add
checked_add(a, b) ==
    IF a + b > USIZE_MAX THEN [ok |-> FALSE, val |-> 0]
    ELSE [ok |-> TRUE, val |-> a + b]

(***************************************************************************)
(* ListNode                                                                *)
(***************************************************************************)
\* ListNode::new
ListNode_new(size) == [size |-> size, next |-> NULL]

\* ListNode::start_addr: a node's address is the address it is stored at
start_addr(addr) == addr

\* ListNode::end_addr
end_addr(m, addr) == start_addr(addr) + m[addr].size

(***************************************************************************)
(* LinkedListAllocator                                                     *)
(***************************************************************************)
\* largest size of a Layout (isize::MAX), scaled like USIZE_MAX
ISIZE_MAX == USIZE_MAX \div 2

\* the size of Layout::pad_to_align: size rounded up to a multiple of align
padded_size(size, align) == ((size + align - 1) \div align) * align

\* Layout::from_size_align accepts (size, align), align a power of two, when
\* size rounded up to align does not exceed isize::MAX
ValidLayout(size, align) == padded_size(size, align) <= ISIZE_MAX

\* size_align without the lower bound of one node header on the size
size_align_NoMinimum(size, align) ==
    LET a == Max(align, ALIGN_OF_LISTNODE)
    IN  [ok |-> ValidLayout(size, a), size |-> padded_size(size, a), align |-> a]

\* LinkedListAllocator::size_align; ok is false when align_to fails and
\* expect aborts
size_align(size, align) ==
    LET a == Max(align, ALIGN_OF_LISTNODE)
    IN  [ok |-> ValidLayout(size, a),
         size |-> Max(padded_size(size, a), SIZE_OF_LISTNODE), align |-> a]

\* check_block_for_alloc without the rule on the size of the remainder
check_block_for_alloc_AnyRemainder(m, block, size, align) ==
    LET alloc_start == align_up(start_addr(block), align)
        alloc_end == checked_add(alloc_start, size)
    IN  IF ~alloc_end.ok THEN [ok |-> FALSE, alloc_start |-> NULL]
        ELSE IF alloc_end.val > end_addr(m, block)
             THEN [ok |-> FALSE, alloc_start |-> NULL]
        ELSE [ok |-> TRUE, alloc_start |-> alloc_start]

\* check_block_for_alloc that also rejects a remainder of zero
check_block_for_alloc_NoExactFit(m, block, size, align) ==
    LET alloc_start == align_up(start_addr(block), align)
        alloc_end == checked_add(alloc_start, size)
        excess_size == end_addr(m, block) - alloc_end.val
    IN  IF ~alloc_end.ok THEN [ok |-> FALSE, alloc_start |-> NULL]
        ELSE IF alloc_end.val > end_addr(m, block)
             THEN [ok |-> FALSE, alloc_start |-> NULL]
        ELSE IF excess_size < SIZE_OF_LISTNODE
             THEN [ok |-> FALSE, alloc_start |-> NULL]
        ELSE [ok |-> TRUE, alloc_start |-> alloc_start]

\* LinkedListAllocator::check_block_for_alloc
check_block_for_alloc(m, block, size, align) ==
    LET alloc_start == align_up(start_addr(block), align)
        alloc_end == checked_add(alloc_start, size)
        excess_size == end_addr(m, block) - alloc_end.val
    IN  IF ~alloc_end.ok THEN [ok |-> FALSE, alloc_start |-> NULL]
        ELSE IF alloc_end.val > end_addr(m, block)
             THEN [ok |-> FALSE, alloc_start |-> NULL]
        ELSE IF excess_size > 0 /\ excess_size < SIZE_OF_LISTNODE
             THEN [ok |-> FALSE, alloc_start |-> NULL]
        ELSE [ok |-> TRUE, alloc_start |-> alloc_start]

\* add_free_block without its two assertions
add_free_block_NoAsserts(hn, m, addr, size) ==
    LET node == [ListNode_new(size) EXCEPT !.next = hn]
    IN  [ok |-> TRUE,
         head_next |-> addr,
         mem |-> [a \in DOMAIN m \cup {addr} |->
                     IF a = addr THEN node ELSE m[a]]]

\* LinkedListAllocator::add_free_block; ok is false when an assertion fails
add_free_block(hn, m, addr, size) ==
    LET node == [ListNode_new(size) EXCEPT !.next = hn]
    IN  IF align_up(addr, ALIGN_OF_LISTNODE) # addr \/ size < SIZE_OF_LISTNODE
        THEN [ok |-> FALSE, head_next |-> hn, mem |-> m]
        ELSE [ok |-> TRUE,
              head_next |-> addr,
              mem |-> [a \in DOMAIN m \cup {addr} |->
                          IF a = addr THEN node ELSE m[a]]]

\* find_free_block that does not stop at the first suitable block: it takes
\* the last one of the list
RECURSIVE find_loop_LastFit(_, _, _, _, _, _)
find_loop_LastFit(hn, m, prev, cur, size, align) ==
    IF cur = NULL
    THEN [block |-> NULL, head_next |-> hn, mem |-> m]
    ELSE LET later == find_loop_LastFit(hn, m, cur, m[cur].next, size, align)
             nxt == m[cur].next
             m1 == [m EXCEPT ![cur].next = NULL]
         IN  IF later.block # NULL THEN later
             ELSE IF check_block_for_alloc(m, cur, size, align).ok
                  THEN IF prev = NULL
                       THEN [block |-> cur, head_next |-> nxt, mem |-> m1]
                       ELSE [block |-> cur, head_next |-> hn,
                             mem |-> [m1 EXCEPT ![prev].next = nxt]]
                  ELSE later

\* the loop of LinkedListAllocator::find_free_block; prev = NULL stands for
\* the sentinel head, cur for current.next
RECURSIVE find_loop(_, _, _, _, _, _)
find_loop(hn, m, prev, cur, size, align) ==
    IF cur = NULL
    THEN [block |-> NULL, head_next |-> hn, mem |-> m]
    ELSE IF check_block_for_alloc(m, cur, size, align).ok
         THEN LET nxt == m[cur].next
                  m1 == [m EXCEPT ![cur].next = NULL]
              IN  IF prev = NULL
                  THEN [block |-> cur, head_next |-> nxt, mem |-> m1]
                  ELSE [block |-> cur, head_next |-> hn,
                        mem |-> [m1 EXCEPT ![prev].next = nxt]]
         ELSE find_loop(hn, m, cur, m[cur].next, size, align)

\* LinkedListAllocator::find_free_block
find_free_block(hn, m, size, align) == find_loop(hn, m, NULL, hn, size, align)

\* the memory of a block handed to the client no longer holds a node
Forget(m, addr) == [a \in DOMAIN m \ {addr} |-> m[a]]

\* alloc that carves the allocation at the block's aligned start and drops
\* the bytes in front of it
LinkedListAllocator_alloc_AlignedStart(hn, m, size, align) ==
    LET sa == size_align(size, align)
        f == find_free_block(hn, m, sa.size, sa.align)
    IN  IF ~sa.ok
        THEN [ptr |-> NULL, panic |-> TRUE, head_next |-> hn, mem |-> m]
        ELSE IF f.block = NULL
        THEN [ptr |-> NULL, panic |-> FALSE, head_next |-> hn, mem |-> m]
        ELSE LET alloc_start == align_up(start_addr(f.block), sa.align)
                 alloc_end == checked_add(alloc_start, sa.size)
                 excess_size == end_addr(f.mem, f.block) - alloc_end.val
                 m2 == Forget(f.mem, f.block)
                 afb == add_free_block(f.head_next, m2, alloc_end.val, excess_size)
             IN  IF ~alloc_end.ok
                 THEN [ptr |-> NULL, panic |-> TRUE,
                       head_next |-> f.head_next, mem |-> m2]
                 ELSE IF excess_size > 0
                      THEN IF afb.ok
                           THEN [ptr |-> alloc_start, panic |-> FALSE,
                                 head_next |-> afb.head_next, mem |-> afb.mem]
                           ELSE [ptr |-> NULL, panic |-> TRUE,
                                 head_next |-> f.head_next, mem |-> m2]
                      ELSE [ptr |-> alloc_start, panic |-> FALSE,
                            head_next |-> f.head_next, mem |-> m2]

\* alloc that puts the remainder node at alloc_start instead of alloc_end
LinkedListAllocator_alloc_RemainderAtStart(hn, m, size, align) ==
    LET sa == size_align(size, align)
        f == find_free_block(hn, m, sa.size, sa.align)
    IN  IF ~sa.ok
        THEN [ptr |-> NULL, panic |-> TRUE, head_next |-> hn, mem |-> m]
        ELSE IF f.block = NULL
        THEN [ptr |-> NULL, panic |-> FALSE, head_next |-> hn, mem |-> m]
        ELSE LET alloc_start == start_addr(f.block)
                 alloc_end == checked_add(alloc_start, sa.size)
                 excess_size == end_addr(f.mem, f.block) - alloc_end.val
                 m2 == Forget(f.mem, f.block)
                 afb == add_free_block(f.head_next, m2, alloc_start, excess_size)
             IN  IF ~alloc_end.ok
                 THEN [ptr |-> NULL, panic |-> TRUE,
                       head_next |-> f.head_next, mem |-> m2]
                 ELSE IF excess_size > 0
                      THEN IF afb.ok
                           THEN [ptr |-> alloc_start, panic |-> FALSE,
                                 head_next |-> afb.head_next, mem |-> afb.mem]
                           ELSE [ptr |-> NULL, panic |-> TRUE,
                                 head_next |-> f.head_next, mem |-> m2]
                      ELSE [ptr |-> alloc_start, panic |-> FALSE,
                            head_next |-> f.head_next, mem |-> m2]

\* LinkedListAllocator::alloc; panic is true when the call aborts
LinkedListAllocator_alloc(hn, m, size, align) ==
    LET sa == size_align(size, align)
        f == find_free_block(hn, m, sa.size, sa.align)
    IN  IF ~sa.ok
        THEN [ptr |-> NULL, panic |-> TRUE, head_next |-> hn, mem |-> m]
        ELSE IF f.block = NULL
        THEN [ptr |-> NULL, panic |-> FALSE, head_next |-> hn, mem |-> m]
        ELSE LET alloc_start == start_addr(f.block)
                 alloc_end == checked_add(alloc_start, sa.size)
                 excess_size == end_addr(f.mem, f.block) - alloc_end.val
                 m2 == Forget(f.mem, f.block)
                 afb == add_free_block(f.head_next, m2, alloc_end.val, excess_size)
             IN  IF ~alloc_end.ok
                 THEN [ptr |-> NULL, panic |-> TRUE,
                       head_next |-> f.head_next, mem |-> m2]
                 ELSE IF excess_size > 0
                      THEN IF afb.ok
                           THEN [ptr |-> alloc_start, panic |-> FALSE,
                                 head_next |-> afb.head_next, mem |-> afb.mem]
                           ELSE [ptr |-> NULL, panic |-> TRUE,
                                 head_next |-> f.head_next, mem |-> m2]
                      ELSE [ptr |-> alloc_start, panic |-> FALSE,
                            head_next |-> f.head_next, mem |-> m2]

\* dealloc that merges the released block with the first node of the list
\* when the two are contiguous
LinkedListAllocator_dealloc_Coalesce(hn, m, ptr, size, align) ==
    LET sa == size_align(size, align)
        afb == add_free_block(hn, m, ptr, sa.size)
    IN  IF ~sa.ok THEN [panic |-> TRUE, head_next |-> hn, mem |-> m]
        ELSE IF hn # NULL /\ ptr + sa.size = hn
        THEN LET merged == add_free_block(m[hn].next, Forget(m, hn), ptr,
                                          sa.size + m[hn].size)
             IN  [panic |-> ~merged.ok, head_next |-> merged.head_next,
                  mem |-> merged.mem]
        ELSE IF hn # NULL /\ hn + m[hn].size = ptr
        THEN [panic |-> FALSE, head_next |-> hn,
              mem |-> [m EXCEPT ![hn].size = m[hn].size + sa.size]]
        ELSE [panic |-> ~afb.ok, head_next |-> afb.head_next, mem |-> afb.mem]

\* dealloc that frees layout.size() bytes instead of the widened size
LinkedListAllocator_dealloc_Unwidened(hn, m, ptr, size, align) ==
    LET afb == add_free_block(hn, m, ptr, size)
    IN  [panic |-> ~afb.ok, head_next |-> afb.head_next, mem |-> afb.mem]

\* LinkedListAllocator::dealloc
LinkedListAllocator_dealloc(hn, m, ptr, size, align) ==
    LET sa == size_align(size, align)
        afb == add_free_block(hn, m, ptr, sa.size)
    IN  IF ~sa.ok THEN [panic |-> TRUE, head_next |-> hn, mem |-> m]
        ELSE [panic |-> ~afb.ok, head_next |-> afb.head_next, mem |-> afb.mem]

\* init that keeps the first SIZE_OF_LISTNODE bytes of the heap out of the list
LinkedListAllocator_init_SkipHeader(hn, m, hs, he) ==
    LET afb == add_free_block(hn, m, hs + SIZE_OF_LISTNODE,
                              he - hs - SIZE_OF_LISTNODE)
    IN  [panic |-> ~afb.ok, head_next |-> afb.head_next, mem |-> afb.mem]

\* LinkedListAllocator::init
LinkedListAllocator_init(hn, m, hs, he) ==
    LET afb == add_free_block(hn, m, hs, he - hs)
    IN  [panic |-> ~afb.ok, head_next |-> afb.head_next, mem |-> afb.mem]

\* the chain from a node, as LinkedListAllocator::dump_free_list walks it
RECURSIVE Chain(_, _, _)
Chain(m, a, fuel) ==
    IF a = NULL \/ fuel = 0 \/ a \notin DOMAIN m THEN <<>>
    ELSE <<[addr |-> a, size |-> m[a].size]>> \o Chain(m, m[a].next, fuel - 1)

\* the free list: the chain reachable from head.next
FreeList == Chain(mem, head_next, Cardinality(DOMAIN mem) + 1)

\* the line dump_free_list prints for the node at addr
FreeBlockLine(n) ==
    TEXT_FREE_BLOCK_AT \o AltHex(n.addr) \o TEXT_SIZE \o AltHex(n.size)
        \o TEXT_FROM \o AltHex(n.addr) \o TEXT_TO \o AltHex(n.addr + n.size)
        \o TEXT_CLOSE

\* the texts dump_free_list prints: a header, one line per node, a footer
DumpTexts(lines) ==
    <<TEXT_LIST_DUMP>> \o [i \in 1..Len(lines) |-> FreeBlockLine(lines[i])]
        \o <<TEXT_LIST_END>>

\* a dump that walks the list by taking each node out of it
LinkedListAllocator_dump_free_list_Draining(hn, m) ==
    [lines |-> Chain(m, hn, Cardinality(DOMAIN m) + 1),
     head_next |-> NULL, mem |-> m,
     out |-> DumpTexts(Chain(m, hn, Cardinality(DOMAIN m) + 1))]

\* LinkedListAllocator::dump_free_list: prints one line per node, in list
\* order, changes nothing
LinkedListAllocator_dump_free_list(hn, m) ==
    [lines |-> Chain(m, hn, Cardinality(DOMAIN m) + 1),
     head_next |-> hn, mem |-> m,
     out |-> DumpTexts(Chain(m, hn, Cardinality(DOMAIN m) + 1))]

(***************************************************************************)
(* BumpAllocator                                                           *)
(***************************************************************************)
\* alloc that counts every call, refused ones included
BumpAllocator_alloc_CountsAttempts(nx, cnt, he, size, align) ==
    LET alloc_start == align_up(nx, align)
        alloc_end == checked_add(alloc_start, size)
    IN  IF ~alloc_end.ok
        THEN [ptr |-> NULL, next |-> nx, allocations |-> cnt + 1]
        ELSE IF alloc_end.val > he
             THEN [ptr |-> NULL, next |-> nx, allocations |-> cnt + 1]
             ELSE [ptr |-> alloc_start, next |-> alloc_end.val,
                   allocations |-> cnt + 1]

\* alloc that returns the cursor as it is, without aligning it
BumpAllocator_alloc_Unaligned(nx, cnt, he, size, align) ==
    LET alloc_start == nx
        alloc_end == checked_add(alloc_start, size)
    IN  IF ~alloc_end.ok
        THEN [ptr |-> NULL, next |-> nx, allocations |-> cnt]
        ELSE IF alloc_end.val > he
             THEN [ptr |-> NULL, next |-> nx, allocations |-> cnt]
             ELSE [ptr |-> alloc_start, next |-> alloc_end.val,
                   allocations |-> cnt + 1]

\* alloc that leaves the cursor at the start of the block it returns
BumpAllocator_alloc_NoAdvance(nx, cnt, he, size, align) ==
    LET alloc_start == align_up(nx, align)
        alloc_end == checked_add(alloc_start, size)
    IN  IF ~alloc_end.ok
        THEN [ptr |-> NULL, next |-> nx, allocations |-> cnt]
        ELSE IF alloc_end.val > he
             THEN [ptr |-> NULL, next |-> nx, allocations |-> cnt]
             ELSE [ptr |-> alloc_start, next |-> alloc_start,
                   allocations |-> cnt + 1]

\* alloc without the comparison of alloc_end with heap_end
BumpAllocator_alloc_NoBoundsCheck(nx, cnt, he, size, align) ==
    LET alloc_start == align_up(nx, align)
        alloc_end == checked_add(alloc_start, size)
    IN  IF ~alloc_end.ok
        THEN [ptr |-> NULL, next |-> nx, allocations |-> cnt]
        ELSE [ptr |-> alloc_start, next |-> alloc_end.val,
              allocations |-> cnt + 1]

\* alloc that also refuses a block ending exactly at heap_end
BumpAllocator_alloc_EndExclusive(nx, cnt, he, size, align) ==
    LET alloc_start == align_up(nx, align)
        alloc_end == checked_add(alloc_start, size)
    IN  IF ~alloc_end.ok
        THEN [ptr |-> NULL, next |-> nx, allocations |-> cnt]
        ELSE IF alloc_end.val >= he
             THEN [ptr |-> NULL, next |-> nx, allocations |-> cnt]
             ELSE [ptr |-> alloc_start, next |-> alloc_end.val,
                   allocations |-> cnt + 1]

\* alloc that keeps the alignment padding of a request it refuses
BumpAllocator_alloc_PadsOnFailure(nx, cnt, he, size, align) ==
    LET alloc_start == align_up(nx, align)
        alloc_end == checked_add(alloc_start, size)
    IN  IF ~alloc_end.ok
        THEN [ptr |-> NULL, next |-> nx, allocations |-> cnt]
        ELSE IF alloc_end.val > he
             THEN [ptr |-> NULL,
                   next |-> IF alloc_start <= he THEN alloc_start ELSE nx,
                   allocations |-> cnt]
             ELSE [ptr |-> alloc_start, next |-> alloc_end.val,
                   allocations |-> cnt + 1]

\* BumpAllocator::alloc
BumpAllocator_alloc(nx, cnt, he, size, align) ==
    LET alloc_start == align_up(nx, align)
        alloc_end == checked_add(alloc_start, size)
    IN  IF ~alloc_end.ok
        THEN [ptr |-> NULL, next |-> nx, allocations |-> cnt]
        ELSE IF alloc_end.val > he
             THEN [ptr |-> NULL, next |-> nx, allocations |-> cnt]
             ELSE [ptr |-> alloc_start, next |-> alloc_end.val,
                   allocations |-> cnt + 1]

\* dealloc that takes the cursor back when the last block is released
BumpAllocator_dealloc_Rewind(nx, cnt, ptr, size, align) ==
    IF ptr + size = nx /\ cnt > 0
    THEN [next |-> ptr, allocations |-> cnt - 1, out |-> <<TEXT_NO_DEALLOC>>]
    ELSE [next |-> nx, allocations |-> cnt, out |-> <<TEXT_NO_DEALLOC>>]

\* BumpAllocator::dealloc: prints a message, changes nothing
BumpAllocator_dealloc(nx, cnt, ptr, size, align) ==
    [next |-> nx, allocations |-> cnt, out |-> <<TEXT_NO_DEALLOC>>]

\* BumpAllocator::dump_free_list: prints used, free and total bytes and the
\* allocation count, changes nothing
BumpAllocator_dump_free_list(nx, cnt, hs, he) ==
    LET used == nx - hs
        total == he - hs
        free == he - nx
    IN  [used |-> used, free |-> free, total |-> total,
         next |-> nx, allocations |-> cnt,
         out |-> << TEXT_BUMP_INFO,
                    TEXT_HEAP_START \o AltHex(hs) \o TEXT_HEAP_END \o AltHex(he)
                        \o TEXT_NEXT_POINTER \o AltHex(nx),
                    TEXT_USED \o Dec(used) \o TEXT_BYTES,
                    TEXT_FREE \o Dec(free) \o TEXT_BYTES,
                    TEXT_TOTAL \o Dec(total) \o TEXT_BYTES,
                    TEXT_ALLOCATIONS \o Dec(cnt) >>]

(***************************************************************************)
(* The strategy behind Locked<...>: the call made with the lock held       *)
(***************************************************************************)
\* self.lock().alloc(layout): the strategy's alloc on the shared state
\* (the kprint! of the free-list alloc, list.rs:169, writes to the kernel log
\* and not to the screen: out is empty)
StrategyAlloc(size, align) ==
    IF strategy = "list"
    THEN LET o == LinkedListAllocator_alloc(head_next, mem, size, align)
         IN  [ptr |-> o.ptr, panic |-> o.panic, head_next |-> o.head_next,
              mem |-> o.mem, next |-> next, allocations |-> allocations,
              out |-> <<>>]
    ELSE LET o == BumpAllocator_alloc(next, allocations, heap_end, size, align)
         IN  [ptr |-> o.ptr, panic |-> FALSE, head_next |-> head_next,
              mem |-> mem, next |-> o.next, allocations |-> o.allocations,
              out |-> <<>>]

\* self.lock().dealloc(ptr, layout): the strategy's dealloc on the shared state
StrategyDealloc(ptr, size, align) ==
    IF strategy = "list"
    THEN LET o == LinkedListAllocator_dealloc(head_next, mem, ptr, size, align)
         IN  [ptr |-> ptr, panic |-> o.panic, head_next |-> o.head_next,
              mem |-> o.mem, next |-> next, allocations |-> allocations,
              out |-> <<>>]
    ELSE LET o == BumpAllocator_dealloc(next, allocations, ptr, size, align)
         IN  [ptr |-> ptr, panic |-> FALSE, head_next |-> head_next,
              mem |-> mem, next |-> o.next, allocations |-> o.allocations,
              out |-> o.out]

\* the strategy's init: one node spanning the heap (list), nothing (bump)
StrategyInit ==
    IF strategy = "list"
    THEN LET o == LinkedListAllocator_init(head_next, mem, heap_start, heap_end)
         IN  [ptr |-> NULL, panic |-> o.panic, head_next |-> o.head_next,
              mem |-> o.mem, next |-> next, allocations |-> allocations,
              out |-> <<>>]
    ELSE [ptr |-> NULL, panic |-> FALSE, head_next |-> head_next,
          mem |-> mem, next |-> next, allocations |-> allocations,
          out |-> <<>>]

\* self.lock().dump_free_list(): the strategy's dump on the shared state
StrategyDump ==
    IF strategy = "list"
    THEN LET o == LinkedListAllocator_dump_free_list(head_next, mem)
         IN  [ptr |-> NULL, panic |-> FALSE, head_next |-> o.head_next,
              mem |-> o.mem, next |-> next, allocations |-> allocations,
              out |-> o.out]
    ELSE LET o == BumpAllocator_dump_free_list(next, allocations, heap_start,
                                               heap_end)
         IN  [ptr |-> NULL, panic |-> FALSE, head_next |-> head_next,
              mem |-> mem, next |-> o.next, allocations |-> o.allocations,
              out |-> o.out]

\* the println! calls of a strategy call reach the screen; a behaviour is
\* followed for MaxConsoleCalls strategy calls that print
Console(out) ==
    IF out = <<>>
    THEN UNCHANGED <<vram, crt, cga>>
    ELSE /\ cga.n < MaxConsoleCalls
         /\ \E o \in {println_all(vram, crt, FG_COLOR, out, 1)} :
           /\ vram' = o.vram
           /\ crt' = o.crt
           /\ cga' = [op |-> "println", x |-> getpos(crt).x,
                      y |-> getpos(crt).y, b |-> NEWLINE,
                      attr |-> attribute(BG_COLOR, FG_COLOR, FALSE),
                      pos |-> CursorIndex(crt), n |-> cga.n + 1]

\* the first n characters of row y of the screen
RowText(v, y, n) == [x \in 1..n |-> v[(y * CGA_COLUMNS + x - 1) * 2]]

\* row y of the screen begins with the text s
RowShows(y, s) ==
    /\ \A x \in 1..Len(s) : (y * CGA_COLUMNS + x - 1) * 2 \in DOMAIN vram
    /\ RowText(vram, y, Len(s)) = s

\* the first n cells of row y are in the foreground colour fg
RowColored(y, n, fg) ==
    \A x \in 1..n :
        /\ (y * CGA_COLUMNS + x - 1) * 2 + 1 \in DOMAIN vram
        /\ vram[(y * CGA_COLUMNS + x - 1) * 2 + 1] = attribute(BG_COLOR, fg, FALSE)

\* the outcome of a strategy call becomes the allocator's state, and what it
\* printed is on the screen
Store(o) ==
    /\ head_next' = o.head_next
    /\ mem' = o.mem
    /\ next' = o.next
    /\ allocations' = o.allocations
    /\ Console(o.out)

NoCall == [op |-> "none", size |-> 0, align |-> 1, ptr |-> NULL]
NoLast == [op |-> "none", size |-> 0, align |-> 1, ptr |-> NULL, pre |-> <<>>]

Panicked == \E c \in Contexts : pc[c] = "panic"

\* the colours the callers of the allocator assign to FG_COLOR
CallerColors == {LightGreen, LightRed, White}

\* unsafe { cga_print::FG_COLOR = color; } on the main path, between two
\* calls; the assignments are followed while a println! that reads the
\* colour can follow
Set_FG_COLOR(color) ==
    /\ ~Panicked /\ lock = NoOwner
    /\ cga.n < MaxConsoleCalls
    /\ color # FG_COLOR
    /\ FG_COLOR' = color
    /\ UNCHANGED <<vram, crt, cga,
                   strategy, heap_start, heap_end, head_size, head_next, mem,
                   next, allocations, inited, lock, pc, req, live, last,
                   before, returned>>

\* the free memory as the strategy holds it: the free list, or the region
\* from next to heap_end
FreeBefore ==
    IF strategy = "list" THEN FreeList
    ELSE <<[addr |-> next, size |-> heap_end - next]>>

\* the bytes of a list of free ranges
RECURSIVE FreeBytes(_)
FreeBytes(fl) == IF fl = <<>> THEN 0 ELSE Head(fl).size + FreeBytes(Tail(fl))

\* what is kept of a call once another call has completed: the call, its
\* result and the free bytes before it
Summary(l) == [op |-> l.op, size |-> l.size, align |-> l.align, ptr |-> l.ptr,
               free |-> FreeBytes(l.pre)]

\* the value of before in the behaviours that keep no history
NoHistory == [op |-> "off", size |-> 0, align |-> 1, ptr |-> NULL, free |-> 0]

\* before after a call, where history is kept
Remember(l) == IF before.op = "off" THEN before ELSE Summary(l)

\* a constructor that takes heap_size for the offset of the last byte
ConstructSized_EndInclusive(st, hs, heap_size, hist) ==
    /\ strategy = st
    /\ heap_start = hs
    /\ heap_end = hs + heap_size - 1
    /\ head_size = ListNode_new(heap_size).size
    /\ head_next = ListNode_new(heap_size).next
    /\ mem = << >>
    /\ next = hs
    /\ allocations = 0
    /\ inited = FALSE
    /\ lock = NoOwner
    /\ pc = [c \in Contexts |-> "idle"]
    /\ req = [c \in Contexts |-> NoCall]
    /\ live = {}
    /\ last = NoLast
    /\ before = hist
    /\ returned = <<>>
    /\ CgaUntouched

\* a constructor that links the sentinel head to a node spanning the heap
ConstructSized_HeadLinked(st, hs, heap_size, hist) ==
    /\ strategy = st
    /\ heap_start = hs
    /\ heap_end = hs + heap_size
    /\ head_size = ListNode_new(heap_size).size
    /\ head_next = hs
    /\ mem = (hs :> ListNode_new(heap_size))
    /\ next = hs
    /\ allocations = 0
    /\ inited = FALSE
    /\ lock = NoOwner
    /\ pc = [c \in Contexts |-> "idle"]
    /\ req = [c \in Contexts |-> NoCall]
    /\ live = {}
    /\ last = NoLast
    /\ before = hist
    /\ returned = <<>>
    /\ CgaUntouched

\* LinkedListAllocator::new / BumpAllocator::new(heap_start, heap_size);
\* hist is the initial value of before
ConstructSized(st, hs, heap_size, hist) ==
    /\ strategy = st
    /\ heap_start = hs
    /\ heap_end = hs + heap_size
    /\ head_size = ListNode_new(heap_size).size
    /\ head_next = ListNode_new(heap_size).next
    /\ mem = << >>
    /\ next = hs
    /\ allocations = 0
    /\ inited = FALSE
    /\ lock = NoOwner
    /\ pc = [c \in Contexts |-> "idle"]
    /\ req = [c \in Contexts |-> NoCall]
    /\ live = {}
    /\ last = NoLast
    /\ before = hist
    /\ returned = <<>>
    /\ CgaUntouched

\* the allocator constructed on a heap of HeapSize bytes at hs
Construct(st, hs) == ConstructSized(st, hs, HeapSize, NoHistory)

(***************************************************************************)
(* Sequential specification: the main path alone calls the free-list       *)
(* allocator; every GlobalAlloc call is one step (lock, strategy call,     *)
(* unlock).  A call that aborts leaves the kernel in the panic handler     *)
(* with the lock held.                                                     *)
(***************************************************************************)
Init == \E hs \in HeapStarts \cup {HighHeapStart} : Construct("list", hs)

\* allocator::init() at startup
Startup_init ==
    /\ ~inited /\ ~Panicked /\ lock = NoOwner
    /\ LET o == StrategyInit
       IN  /\ Store(o)
           /\ pc' = IF o.panic THEN [pc EXCEPT !["main"] = "panic"] ELSE pc
           /\ lock' = IF o.panic THEN "main" ELSE NoOwner
           /\ last' = [op |-> "init", size |-> 0, align |-> 1, ptr |-> NULL,
                       pre |-> FreeBefore]
    /\ before' = Remember(last)
    /\ inited' = TRUE
    /\ UNCHANGED <<FG_COLOR, strategy, heap_start, heap_end, head_size, req, live, returned>>

\* <Locked<LinkedListAllocator> as GlobalAlloc>::alloc
GlobalAlloc_alloc(size, align) ==
    /\ ~Panicked /\ lock = NoOwner
    /\ LET o == StrategyAlloc(size, align)
       IN  /\ Store(o)
           /\ pc' = IF o.panic THEN [pc EXCEPT !["main"] = "panic"] ELSE pc
           /\ lock' = IF o.panic THEN "main" ELSE NoOwner
           /\ live' = IF o.ptr # NULL
                      THEN live \cup {[addr |-> o.ptr, size |-> size, align |-> align]}
                      ELSE live
           /\ last' = [op |-> "alloc", size |-> size, align |-> align,
                       ptr |-> o.ptr, pre |-> FreeBefore]
           /\ returned' = IF strategy = "bump" /\ o.ptr # NULL
                          THEN Append(returned, [addr |-> o.ptr, size |-> size,
                                                 align |-> align])
                          ELSE returned
    /\ before' = Remember(last)
    /\ UNCHANGED <<FG_COLOR, strategy, heap_start, heap_end, head_size, inited, req>>

\* <Locked<LinkedListAllocator> as GlobalAlloc>::dealloc of a live allocation
GlobalAlloc_dealloc(a) ==
    /\ ~Panicked /\ lock = NoOwner
    /\ a \in live
    /\ LET o == StrategyDealloc(a.addr, a.size, a.align)
       IN  /\ Store(o)
           /\ pc' = IF o.panic THEN [pc EXCEPT !["main"] = "panic"] ELSE pc
           /\ lock' = IF o.panic THEN "main" ELSE NoOwner
           /\ last' = [op |-> "dealloc", size |-> a.size, align |-> a.align,
                       ptr |-> a.addr, pre |-> FreeBefore]
    /\ before' = Remember(last)
    /\ live' = live \ {a}
    /\ UNCHANGED <<FG_COLOR, strategy, heap_start, heap_end, head_size, inited, req, returned>>

Next ==
    \/ Startup_init
    \/ \E size \in ReqSizes, align \in ReqAligns : GlobalAlloc_alloc(size, align)
    \/ \E a \in live : GlobalAlloc_dealloc(a)

Spec == Init /\ [][Next]_vars

\* the same calls with the call before the last one remembered, on the heap
\* whose start is not a multiple of the largest alignment
InitHistory ==
    \E hs \in HeapStarts :
        /\ hs % Pow2(MaxAlignLog) # 0
        /\ ConstructSized("list", hs, HeapSize, Summary(NoLast))

SpecHistory == InitHistory /\ [][Next]_vars

(***************************************************************************)
(* The heap of the documented examples: [0x1000, 0x2000).  The heap is     *)
(* followed while it is cut into at most MaxAllocs + 1 ranges, live blocks *)
(* and free nodes together.                                                *)
(***************************************************************************)
InitExample == ConstructSized("list", 4096, 4096, NoHistory)

NextExample ==
    \/ Startup_init
    \/ /\ Cardinality(live) + Len(FreeList) <= MaxAllocs
       /\ \E size \in ReqSizes, align \in ReqAligns : GlobalAlloc_alloc(size, align)
    \/ \E a \in live : GlobalAlloc_dealloc(a)

SpecExample == InitExample /\ [][NextExample]_vars

(***************************************************************************)
(* Sequential specification of the bump strategy: the main path           *)
(* allocates, releases and dumps.  Sizes start at 0 and alignments at 1;   *)
(* the allocation counter is followed up to MaxAllocs.  Every release      *)
(* prints a line and every dump six.                                       *)
(***************************************************************************)
BumpSizes == {0, 1, 8 * MaxSizeWords}
BumpAligns == {1, Pow2(MaxAlignLog)}

\* the requests of the main path: of no byte, of one byte, which leaves the
\* cursor off every alignment above 1, and of MaxSizeWords words at the
\* least and at the largest alignment
BumpRequests ==
    {[size |-> 0, align |-> 1], [size |-> 1, align |-> 1]}
        \cup {[size |-> 8 * MaxSizeWords, align |-> a] : a \in BumpAligns}

\* a heap just below the top of the address space; its start is not a
\* multiple of the largest alignment
BumpStarts == {HighHeapStart}

InitBump == \E hs \in BumpStarts : Construct("bump", hs)

\* allocator::dump_free_list()
Dump_free_list ==
    /\ ~Panicked /\ lock = NoOwner
    /\ Store(StrategyDump)
    /\ last' = [op |-> "dump", size |-> 0, align |-> 1, ptr |-> NULL,
                pre |-> FreeBefore]
    /\ before' = Remember(last)
    /\ UNCHANGED <<FG_COLOR, strategy, heap_start, heap_end, head_size, inited, lock, pc,
                   req, live, returned>>

\* GlobalAlloc::dealloc with an address and a layout of the caller's choosing,
\* an allocation of the caller or not
GlobalAlloc_dealloc_any(ptr, size, align) ==
    /\ ~Panicked /\ lock = NoOwner
    /\ strategy = "bump"
    /\ LET o == StrategyDealloc(ptr, size, align)
       IN  /\ Store(o)
           /\ last' = [op |-> "dealloc", size |-> size, align |-> align,
                       ptr |-> ptr, pre |-> FreeBefore]
    /\ before' = Remember(last)
    /\ live' = live \ {[addr |-> ptr, size |-> size, align |-> align]}
    /\ UNCHANGED <<FG_COLOR, strategy, heap_start, heap_end, head_size, inited, lock, pc,
                   req, returned>>

\* an address released without having been allocated: inside the heap, and
\* no allocation of the requested alignments above 1 starts at it
ForeignPtrs == {heap_start + 1}

NextBump ==
    \/ Startup_init
    \/ /\ allocations < MaxAllocs
       /\ \E r \in BumpRequests : GlobalAlloc_alloc(r.size, r.align)
    \/ \E a \in live : GlobalAlloc_dealloc(a)
    \/ \E ptr \in ForeignPtrs :
          GlobalAlloc_dealloc_any(ptr, 8 * MaxSizeWords, Pow2(MaxAlignLog))
    \/ Dump_free_list

SpecBump == InitBump /\ [][NextBump]_vars

(***************************************************************************)
(* The bump strategy under a caller that assigns FG_COLOR between its      *)
(* calls, as the heap demo does before each allocation and each release:   *)
(* the line a release prints is in the colour of the time.  The requests   *)
(* are of the size of the demo's struct.                                   *)
(***************************************************************************)
DemoSizes == {8}

NextRelease ==
    \/ Startup_init
    \/ \E color \in CallerColors : Set_FG_COLOR(color)
    \/ /\ allocations < MaxAllocs
       /\ \E size \in DemoSizes, align \in BumpAligns : GlobalAlloc_alloc(size, align)
    \/ \E a \in live : GlobalAlloc_dealloc(a)
    \/ \E ptr \in ForeignPtrs :
          GlobalAlloc_dealloc_any(ptr, 8 * MaxSizeWords, Pow2(MaxAlignLog))

SpecRelease == InitBump /\ [][NextRelease]_vars

(***************************************************************************)
(* The bump strategy on the heap of the documented examples,               *)
(* [0x1000, 0x2000), with the requests of the exhaustion example among     *)
(* the requests; one more allocation than MaxAllocs is followed.           *)
(***************************************************************************)
ExampleSizes == {8, 4081}
ExampleAligns == {4, Pow2(MaxAlignLog)}

InitBumpExample == ConstructSized("bump", 4096, 4096, NoHistory)

NextBumpExample ==
    \/ Startup_init
    \/ /\ allocations <= MaxAllocs
       /\ \E size \in ExampleSizes, align \in ExampleAligns :
             GlobalAlloc_alloc(size, align)
    \/ \E a \in live : GlobalAlloc_dealloc(a)
    \/ Dump_free_list

SpecBumpExample == InitBumpExample /\ [][NextBumpExample]_vars

(***************************************************************************)
(* Initialisation on heap regions of any start and size with start < end:  *)
(* starts that are and are not multiples of the node alignment, sizes      *)
(* below and from the node header size, both strategies.                   *)
(***************************************************************************)
RegionStarts == HeapStarts \cup {hs + 4 : hs \in HeapStarts}
RegionSizes == {8 * k : k \in 1..(MaxSizeWords + 1)}

InitRegions ==
    \E st \in {"list", "bump"} : \E hs \in RegionStarts, sz \in RegionSizes :
        ConstructSized(st, hs, sz, NoHistory)

NextRegions ==
    \/ Startup_init
    \/ /\ allocations < MaxAllocs
       /\ \E size \in ReqSizes, align \in ReqAligns : GlobalAlloc_alloc(size, align)
    \/ \E a \in live : GlobalAlloc_dealloc(a)

SpecRegions == InitRegions /\ [][NextRegions]_vars

(***************************************************************************)
(* Both strategies with the diagnostic dump among the calls of the main    *)
(* path, which also assigns FG_COLOR between its calls, as the heap demo   *)
(* does.  What a dump prints depends on the allocator's state, and it      *)
(* stays on the screen in the colour of the time; the requests are of      *)
(* DemoSizes and of the node alignment, on a heap of DumpHeapSize bytes.   *)
(***************************************************************************)
\* the sizes requested where a dump is not among the calls
DumpSizes == {8, 8 * MaxSizeWords}
\* the alignment of the requests and the heap where it is
DumpAligns == {ALIGN_OF_LISTNODE}
DumpHeapSize == 8 * (HeapWords - 2)

InitDump ==
    \E st \in {"list", "bump"} : \E hs \in HeapStarts :
        ConstructSized(st, hs, DumpHeapSize, NoHistory)

NextDump ==
    \/ Startup_init
    \/ \E color \in CallerColors : Set_FG_COLOR(color)
    \/ /\ allocations < MaxAllocs
       /\ \E size \in DemoSizes, align \in DumpAligns : GlobalAlloc_alloc(size, align)
    \/ \E a \in live : GlobalAlloc_dealloc(a)
    \/ Dump_free_list

SpecDump == InitDump /\ [][NextDump]_vars

(***************************************************************************)
(* Both strategies on heaps low and high in the address space; the main    *)
(* path allocates and releases.                                            *)
(***************************************************************************)
InitHeaps ==
    \E st \in {"list", "bump"} : \E hs \in HeapStarts \cup {HighHeapStart} :
        Construct(st, hs)

NextHeaps ==
    \/ Startup_init
    \/ /\ allocations < MaxAllocs
       /\ \E size \in DumpSizes, align \in ReqAligns : GlobalAlloc_alloc(size, align)
    \/ \E a \in live : GlobalAlloc_dealloc(a)

SpecHeaps == InitHeaps /\ [][NextHeaps]_vars

(***************************************************************************)
(* size_align as a function: a caller builds a Layout and the free-list    *)
(* allocator widens it.  The layouts are the small ones and the largest    *)
(* ones Layout::from_size_align accepts.                                   *)
(***************************************************************************)
LayoutSizes == 0..(8 * MaxSizeWords + 1) \cup (ISIZE_MAX - 8)..ISIZE_MAX
LayoutAligns == {Pow2(k) : k \in 0..MaxAlignLog}

\* Layout::from_size_align(size, align).unwrap()
Layout_from_size_align(size, align) ==
    /\ req["main"].op = "none" /\ last.op = "none"
    /\ ValidLayout(size, align)
    /\ req' = [req EXCEPT !["main"] = [op |-> "layout", size |-> size,
                                       align |-> align, ptr |-> NULL]]
    /\ UNCHANGED <<vram, crt, cga, FG_COLOR,
                   strategy, heap_start, heap_end, head_size, head_next, mem,
                   next, allocations, inited, lock, pc, live, last, before,
                   returned>>

\* LinkedListAllocator::size_align(layout); last holds the widened layout
Apply_size_align ==
    /\ req["main"].op = "layout" /\ last.op = "none"
    /\ LET sa == size_align(req["main"].size, req["main"].align)
       IN  /\ pc' = IF sa.ok THEN pc ELSE [pc EXCEPT !["main"] = "panic"]
           /\ last' = [op |-> "size_align", size |-> sa.size,
                       align |-> sa.align, ptr |-> NULL, pre |-> <<>>]
    /\ UNCHANGED <<vram, crt, cga, FG_COLOR,
                   strategy, heap_start, heap_end, head_size, head_next, mem,
                   next, allocations, inited, lock, req, live, before, returned>>

NextSizeAlign ==
    \/ \E size \in LayoutSizes, align \in LayoutAligns :
          Layout_from_size_align(size, align)
    \/ Apply_size_align

SpecSizeAlign == Init /\ [][NextSizeAlign]_vars

(***************************************************************************)
(* Concurrent specification: the main path and an interrupt handler on     *)
(* the same core call the global entry point of either strategy.  A call   *)
(* is three steps: take the lock (spinning while it is held), make the     *)
(* strategy call, drop the guard and return.  The handler may start at any *)
(* point once startup has run init; while it is active the main path does  *)
(* not run.                                                                *)
(***************************************************************************)
\* the sizes requested in the concurrent specification
ConcSizes == {8, 8 * MaxSizeWords}

InitConc == \E st \in {"list", "bump"} : \E hs \in HeapStarts : Construct(st, hs)

\* the context is executing: the main path is suspended while the handler
\* is active, a context in the panic handler never leaves it
Runnable(c) ==
    /\ pc[c] # "panic"
    /\ c = "main" => pc["irq"] = "idle"

\* spin::Mutex::lock as seen by one attempt: taken only when free
lock_free(l) == l = NoOwner

\* the calls under way that will print: the releases of the bump strategy
\* that have not reached the allocator yet
PendingPrints ==
    Cardinality({d \in Contexts : /\ req[d].op = "dealloc"
                                  /\ pc[d] \in {"spin", "locked"}})

\* a caller enters GlobalAlloc::alloc
Call_alloc(c, size, align) ==
    /\ inited /\ Runnable(c) /\ pc[c] = "idle"
    /\ allocations < MaxAllocs
    /\ pc' = [pc EXCEPT ![c] = "spin"]
    /\ req' = [req EXCEPT ![c] = [op |-> "alloc", size |-> size,
                                  align |-> align, ptr |-> NULL]]
    /\ UNCHANGED <<vram, crt, cga, FG_COLOR,
                   strategy, heap_start, heap_end, head_size, head_next, mem,
                   next, allocations, inited, lock, live, last, before, returned>>

\* a caller enters GlobalAlloc::dealloc with a live allocation of its own
Call_dealloc(c, a) ==
    /\ inited /\ Runnable(c) /\ pc[c] = "idle"
    /\ a \in live
    /\ strategy = "bump" => cga.n + PendingPrints < MaxConsoleCalls
    /\ pc' = [pc EXCEPT ![c] = "spin"]
    /\ req' = [req EXCEPT ![c] = [op |-> "dealloc", size |-> a.size,
                                  align |-> a.align, ptr |-> a.addr]]
    /\ live' = live \ {a}
    /\ UNCHANGED <<vram, crt, cga, FG_COLOR,
                   strategy, heap_start, heap_end, head_size, head_next, mem,
                   next, allocations, inited, lock, last, before, returned>>

\* self.lock() that gives up when the lock is held: the call returns null
Acquire_TryLock(c) ==
    /\ Runnable(c) /\ pc[c] = "spin"
    /\ IF lock_free(lock)
       THEN lock' = c /\ pc' = [pc EXCEPT ![c] = "locked"] /\ req' = req
       ELSE lock' = lock /\ pc' = [pc EXCEPT ![c] = "idle"]
            /\ req' = [req EXCEPT ![c] = NoCall]
    /\ UNCHANGED <<vram, crt, cga, FG_COLOR,
                   strategy, heap_start, heap_end, head_size, head_next, mem,
                   next, allocations, inited, live, last, before, returned>>

\* self.lock(): the caller spins until the lock is free, then owns it
Acquire(c) ==
    /\ Runnable(c) /\ pc[c] = "spin"
    /\ lock_free(lock)
    /\ lock' = c
    /\ pc' = [pc EXCEPT ![c] = "locked"]
    /\ UNCHANGED <<vram, crt, cga, FG_COLOR,
                   strategy, heap_start, heap_end, head_size, head_next, mem,
                   next, allocations, inited, req, live, last, before, returned>>

\* the strategy call made on the shared allocator without taking the lock
Locked_call_Unlocked(c) ==
    /\ Runnable(c) /\ pc[c] \in {"spin", "locked"}
    /\ LET o == IF req[c].op = "alloc"
                THEN StrategyAlloc(req[c].size, req[c].align)
                ELSE StrategyDealloc(req[c].ptr, req[c].size, req[c].align)
       IN  /\ Store(o)
           /\ pc' = [pc EXCEPT ![c] = IF o.panic THEN "panic" ELSE "done"]
           /\ req' = [req EXCEPT ![c].ptr = o.ptr]
    /\ UNCHANGED <<FG_COLOR, strategy, heap_start, heap_end, head_size, inited, lock,
                   live, last, before, returned>>

\* .alloc(layout) / .dealloc(ptr, layout) on the locked allocator
Locked_call(c) ==
    /\ Runnable(c) /\ pc[c] = "locked"
    /\ LET o == IF req[c].op = "alloc"
                THEN StrategyAlloc(req[c].size, req[c].align)
                ELSE StrategyDealloc(req[c].ptr, req[c].size, req[c].align)
       IN  /\ Store(o)
           /\ pc' = [pc EXCEPT ![c] = IF o.panic THEN "panic" ELSE "done"]
           /\ req' = [req EXCEPT ![c].ptr = o.ptr]
    /\ UNCHANGED <<FG_COLOR, strategy, heap_start, heap_end, head_size, inited, lock,
                   live, last, before, returned>>

\* the guard is dropped at the end of the statement and the call returns
Return(c) ==
    /\ Runnable(c) /\ pc[c] = "done"
    /\ lock' = NoOwner
    /\ pc' = [pc EXCEPT ![c] = "idle"]
    /\ live' = IF req[c].op = "alloc" /\ req[c].ptr # NULL
               THEN live \cup {[addr |-> req[c].ptr, size |-> req[c].size,
                                align |-> req[c].align]}
               ELSE live
    /\ req' = [req EXCEPT ![c] = NoCall]
    /\ UNCHANGED <<vram, crt, cga, FG_COLOR,
                   strategy, heap_start, heap_end, head_size, head_next, mem,
                   next, allocations, inited, last, before, returned>>

NextConc ==
    \/ Startup_init
    \/ \E c \in Contexts : \E size \in ConcSizes, align \in ReqAligns :
          Call_alloc(c, size, align)
    \/ \E c \in Contexts : \E a \in live : Call_dealloc(c, a)
    \/ \E c \in Contexts : Acquire(c)
    \/ \E c \in Contexts : Locked_call(c)
    \/ \E c \in Contexts : Return(c)

SpecConc == InitConc /\ [][NextConc]_vars

(***************************************************************************)
(* Startup specification: startup() runs its statements in order on the    *)
(* main path, pc["main"] naming the statement to run next.  Interrupts are *)
(* masked on entry (pc["irq"] = "masked") until cpu::enable_int().  A      *)
(* subsystem may allocate while it is initialised and a handler may        *)
(* allocate once interrupts are enabled; neither asks whether the          *)
(* allocator has been initialised.                                         *)
(***************************************************************************)
\* an order of startup() that initialises the allocator last, after
\* interrupts have been enabled
startup_order_InitAfterEnableInt ==
    <<"PIC.init", "idt.load", "INT_VECTORS.init", "CGA.clear",
      "keyboard::plugin", "cpu::enable_int", "allocator::init", "loop">>

\* the statements of startup() in program order
startup_order ==
    <<"allocator::init", "PIC.init", "idt.load", "INT_VECTORS.init",
      "CGA.clear", "keyboard::plugin", "cpu::enable_int", "loop">>

\* the statement after statement s
StepAfter(s) ==
    LET i == CHOOSE k \in 1..Len(startup_order) : startup_order[k] = s
    IN  startup_order[i + 1]

\* the layouts requested during and after startup
StartupAligns == {ALIGN_OF_LISTNODE, Pow2(MaxAlignLog)}

InitStartup ==
    \E st \in {"list", "bump"} : \E hs \in HeapStarts :
        /\ strategy = st
        /\ heap_start = hs
        /\ heap_end = hs + HeapSize
        /\ head_size = ListNode_new(HeapSize).size
        /\ head_next = ListNode_new(HeapSize).next
        /\ mem = << >>
        /\ next = hs
        /\ allocations = 0
        /\ inited = FALSE
        /\ lock = NoOwner
        /\ pc = [main |-> startup_order[1], irq |-> "masked"]
        /\ req = [c \in Contexts |-> NoCall]
        /\ live = {}
        /\ last = NoLast
        /\ before = NoHistory
        /\ returned = <<>>
        /\ CgaUntouched

\* allocator::init(), a statement of startup()
Startup_allocator_init ==
    /\ pc["main"] = "allocator::init" /\ ~Panicked /\ lock = NoOwner
    /\ LET o == StrategyInit
       IN  /\ Store(o)
           /\ pc' = [pc EXCEPT !["main"] = IF o.panic THEN "panic"
                                           ELSE StepAfter("allocator::init")]
           /\ lock' = IF o.panic THEN "main" ELSE NoOwner
           /\ last' = [op |-> "init", size |-> 0, align |-> 1, ptr |-> NULL,
                       pre |-> FreeBefore]
    /\ before' = Remember(last)
    /\ inited' = TRUE
    /\ UNCHANGED <<FG_COLOR, strategy, heap_start, heap_end, head_size, req, live, returned>>

\* a statement of startup() other than allocator::init() has run;
\* CGA.lock().clear() clears the screen, cpu::enable_int() unmasks the
\* interrupts
Startup_statement ==
    /\ pc["main"] \notin {"allocator::init", "loop", "panic"} /\ ~Panicked
    /\ pc' = [main |-> StepAfter(pc["main"]),
              irq |-> IF pc["main"] = "cpu::enable_int" THEN "idle"
                      ELSE pc["irq"]]
    /\ IF pc["main"] = "CGA.clear"
       THEN /\ \E o \in {clear(vram)} : vram' = o.vram /\ crt' = o.crt
            /\ cga' = [op |-> "clear", x |-> 0, y |-> 0, b |-> 0, attr |-> 0,
                       pos |-> CursorIndex(crt), n |-> cga.n + 1]
       ELSE UNCHANGED <<vram, crt, cga>>
    /\ UNCHANGED <<FG_COLOR, strategy, heap_start, heap_end, head_size, head_next, mem,
                   next, allocations, inited, lock, req, live, last, before,
                   returned>>

\* GlobalAlloc::alloc called by context c, as one step
Alloc_by(c, size, align) ==
    /\ ~Panicked /\ lock = NoOwner
    /\ Cardinality(live) < MaxAllocs
    /\ LET o == StrategyAlloc(size, align)
       IN  /\ Store(o)
           /\ pc' = IF o.panic THEN [pc EXCEPT ![c] = "panic"] ELSE pc
           /\ lock' = IF o.panic THEN c ELSE NoOwner
           /\ live' = IF o.ptr # NULL
                      THEN live \cup {[addr |-> o.ptr, size |-> size, align |-> align]}
                      ELSE live
           /\ last' = [op |-> "alloc", size |-> size, align |-> align,
                       ptr |-> o.ptr, pre |-> FreeBefore]
           /\ returned' = IF strategy = "bump" /\ o.ptr # NULL
                          THEN Append(returned, [addr |-> o.ptr, size |-> size,
                                                 align |-> align])
                          ELSE returned
    /\ before' = Remember(last)
    /\ UNCHANGED <<FG_COLOR, strategy, heap_start, heap_end, head_size, inited, req>>

\* the subsystem being initialised allocates
Subsystem_alloc(size, align) ==
    /\ pc["main"] \notin {"allocator::init", "cpu::enable_int", "loop", "panic"}
    /\ Alloc_by("main", size, align)

\* an interrupt handler allocates: interrupts are enabled
Handler_alloc(size, align) ==
    /\ pc["irq"] = "idle"
    /\ Alloc_by("irq", size, align)

NextStartup ==
    \/ Startup_allocator_init
    \/ Startup_statement
    \/ \E size \in ConcSizes, align \in StartupAligns : Subsystem_alloc(size, align)
    \/ \E size \in ConcSizes, align \in StartupAligns : Handler_alloc(size, align)

SpecStartup == InitStartup /\ [][NextStartup]_vars

(***************************************************************************)
(* CGA specification: calls of the public functions of the CGA, one call a *)
(* step, on a screen of unknown content with the cursor registers as the   *)
(* firmware left them.                                                     *)
(***************************************************************************)
AllocatorVars == <<strategy, heap_start, heap_end, head_size, head_next, mem,
                   next, allocations, inited, lock, pc, req, live, last,
                   before, returned>>

\* the coordinates passed to show and to setpos, the bytes printed, the
\* values the firmware may have left in the cursor registers
ShowCoords == {<<CGA_COLUMNS - 1, CGA_ROWS - 1>>, <<CGA_COLUMNS, CGA_ROWS - 1>>,
               <<0, CGA_ROWS>>, <<CGA_COLUMNS + 1, CGA_ROWS + 1>>}
SetposCoords == {<<CGA_COLUMNS - 1, 0>>, <<CGA_COLUMNS - 2, CGA_ROWS - 1>>,
                 <<CGA_COLUMNS, CGA_ROWS>>, <<0, 1000>>}
PrintBytes == {NEWLINE, 65, 66}
FirmwareCursors == {0, CGA_ROWS * CGA_COLUMNS, 65535}

InitCga ==
    /\ \E pos \in FirmwareCursors :
          crt = [low |-> pos % 256, high |-> pos \div 256]
    /\ vram = << >>
    /\ cga = NoCgaCall
    /\ FG_COLOR = White
    /\ strategy = "list"
    /\ heap_start = 4096
    /\ heap_end = 4096 + HeapSize
    /\ head_size = ListNode_new(HeapSize).size
    /\ head_next = ListNode_new(HeapSize).next
    /\ mem = << >>
    /\ next = 4096
    /\ allocations = 0
    /\ inited = FALSE
    /\ lock = NoOwner
    /\ pc = [c \in Contexts |-> "idle"]
    /\ req = [c \in Contexts |-> NoCall]
    /\ live = {}
    /\ last = NoLast
    /\ before = NoHistory
    /\ returned = <<>>

\* the record of a completed call
CgaCall(op, x, y, b, attr) ==
    [op |-> op, x |-> x, y |-> y, b |-> b, attr |-> attr,
     pos |-> CursorIndex(crt), n |-> cga.n + 1]

Cga_clear ==
    /\ cga.n < MaxCalls
    /\ \E o \in {clear(vram)} : vram' = o.vram /\ crt' = o.crt
    /\ cga' = CgaCall("clear", 0, 0, 0, 0)
    /\ UNCHANGED <<AllocatorVars, FG_COLOR>>

Cga_show(x, y, character, attrib) ==
    /\ cga.n < MaxCalls
    /\ vram' = show(vram, x, y, character, attrib)
    /\ crt' = crt
    /\ cga' = CgaCall("show", x, y, character, attrib)
    /\ UNCHANGED <<AllocatorVars, FG_COLOR>>

Cga_setpos(x, y) ==
    /\ cga.n < MaxCalls
    /\ vram' = vram
    /\ crt' = setpos(x, y)
    /\ cga' = CgaCall("setpos", x, y, 0, 0)
    /\ UNCHANGED <<AllocatorVars, FG_COLOR>>

Cga_print_byte(b, bg, fg, blink) ==
    /\ cga.n < MaxCalls
    /\ \E o \in {print_byte(vram, crt, b, bg, fg, blink)} :
          vram' = o.vram /\ crt' = o.crt
    /\ cga' = CgaCall("print_byte", getpos(crt).x, getpos(crt).y, b,
                      attribute(bg, fg, blink))
    /\ UNCHANGED <<AllocatorVars, FG_COLOR>>

Cga_scrollup ==
    /\ cga.n < MaxCalls
    /\ \E o \in {scrollup(vram)} : vram' = o.vram /\ crt' = o.crt
    /\ cga' = CgaCall("scrollup", 0, 0, 0, 0)
    /\ UNCHANGED <<AllocatorVars, FG_COLOR>>

NextCga ==
    \/ Cga_clear
    \/ \E c \in ShowCoords : Cga_show(c[1], c[2], 88, CGA_STD_ATTR)
    \/ \E c \in SetposCoords : Cga_setpos(c[1], c[2])
    \/ \E b \in PrintBytes : Cga_print_byte(b, 1, 14, FALSE)
    \/ Cga_scrollup

SpecCga == InitCga /\ [][NextCga]_vars

(***************************************************************************)
(* Vocabulary of the properties, stated independently of the operators     *)
(* above                                                                   *)
(***************************************************************************)
\* smallest multiple of a that is >= x
AlignedStart(x, a) == CHOOSE y \in x..(x + a - 1) : y % a = 0

\* the alignment and the size an allocation of layout (size, align) occupies
WidenedAlign(align) == IF align > ALIGN_OF_LISTNODE THEN align ELSE ALIGN_OF_LISTNODE
WidenedSize(size, align) ==
    LET p == AlignedStart(size, WidenedAlign(align))
    IN  IF p > SIZE_OF_LISTNODE THEN p ELSE SIZE_OF_LISTNODE

Disjoint(a1, s1, a2, s2) == a1 + s1 <= a2 \/ a2 + s2 <= a1

RemoveAt(s, i) == SubSeq(s, 1, i - 1) \o SubSeq(s, i + 1, Len(s))

RECURSIVE SumSizes(_)
SumSizes(s) == IF s = <<>> THEN 0 ELSE Head(s).size + SumSizes(Tail(s))

RECURSIVE SumLive(_)
SumLive(S) ==
    IF S = {} THEN 0
    ELSE LET x == CHOOSE x \in S : TRUE
         IN  WidenedSize(x.size, x.align) + SumLive(S \ {x})

\* bytes left in node n behind an allocation of s bytes at n's start aligned to a
\* (negative when the allocation does not fit)
Remainder(n, s, a) == (n.addr + n.size) - (AlignedStart(n.addr, a) + s)

\* node n passes the fit check: room for s bytes at its aligned start, and
\* what remains is nothing or enough for a node header
Fits(n, s, a) ==
    Remainder(n, s, a) = 0 \/ Remainder(n, s, a) >= SIZE_OF_LISTNODE

\* index of the first node of list fl that fits, 0 when none does
FirstFit(fl, s, a) ==
    IF \E i \in 1..Len(fl) : Fits(fl[i], s, a)
    THEN CHOOSE i \in 1..Len(fl) :
            /\ Fits(fl[i], s, a)
            /\ \A k \in 1..(i - 1) : ~Fits(fl[k], s, a)
    ELSE 0

LastSize == WidenedSize(last.size, last.align)
LastAlign == WidenedAlign(last.align)
LastFit == FirstFit(last.pre, LastSize, LastAlign)

(***************************************************************************)
(* C1: no two nodes of the free list overlap, and no free node overlaps    *)
(* the widened range of a live allocation.                                 *)
(***************************************************************************)
C1_NoOverlap ==
    LET fl == FreeList
    IN  /\ \A i, j \in 1..Len(fl) :
              i < j => Disjoint(fl[i].addr, fl[i].size, fl[j].addr, fl[j].size)
        /\ \A i \in 1..Len(fl) : \A x \in live :
              Disjoint(fl[i].addr, fl[i].size,
                       x.addr, WidenedSize(x.size, x.align))
        /\ \A x, y \in live :
              x # y => Disjoint(x.addr, WidenedSize(x.size, x.align),
                                y.addr, WidenedSize(y.size, y.align))

\* a release has just put a node back next to other free nodes and a live block
C1_Witness ==
    /\ last.op = "dealloc"
    /\ Len(FreeList) >= 3
    /\ live # {}

(***************************************************************************)
(* C2: after init the sizes of the free nodes and the widened sizes of     *)
(* the live allocations add up to heap_end - heap_start.                   *)
(***************************************************************************)
C2_BytesConserved ==
    inited => SumSizes(FreeList) + SumLive(live) = heap_end - heap_start

\* the same accounting in the states in which no call has aborted
BytesConservedUnlessPanicked ==
    (inited /\ ~Panicked) =>
        SumSizes(FreeList) + SumLive(live) = heap_end - heap_start

(***************************************************************************)
(* C3: a non-null address returned by allocate is the matched block's      *)
(* start aligned up to the requested alignment, hence a multiple of it.    *)
(***************************************************************************)
C3_ReturnedAddressAligned ==
    (last.op = "alloc" /\ last.ptr # NULL) =>
        /\ last.ptr % last.align = 0
        /\ LastFit # 0
        /\ last.ptr = AlignedStart(last.pre[LastFit].addr, last.align)

(***************************************************************************)
(* C4: no allocator call aborts: both assertions of add_free_block hold    *)
(* on every call.                                                          *)
(***************************************************************************)
C4_NeverAborts == ~Panicked

(***************************************************************************)
(* C7: allocate takes the first node in list order that passes the fit     *)
(* check; it is unlinked and all other nodes keep their order.             *)
(***************************************************************************)
C7_FirstFit ==
    last.op = "alloc" =>
        LET fl == FreeList
            rest == RemoveAt(last.pre, LastFit)
        IN  IF LastFit = 0
            THEN last.ptr = NULL /\ fl = last.pre
            ELSE /\ Len(fl) \in {Len(rest), Len(rest) + 1}
                 /\ SubSeq(fl, Len(fl) - Len(rest) + 1, Len(fl)) = rest
                 /\ \A i \in 1..Len(fl) : fl[i].addr # last.pre[LastFit].addr
                 /\ last.ptr # NULL =>
                        /\ last.pre[LastFit].addr <= last.ptr
                        /\ last.ptr < last.pre[LastFit].addr + last.pre[LastFit].size

\* the scan passed a node that does not fit and took a node that is followed
\* by another fitting node
C7_Witness ==
    /\ last.op = "alloc"
    /\ last.ptr # NULL
    /\ LastFit >= 2
    /\ \E j \in (LastFit + 1)..Len(last.pre) : Fits(last.pre[j], LastSize, LastAlign)

(***************************************************************************)
(* C8: a node whose remainder behind the allocation is above 0 and below   *)
(* the node header size is rejected: it stays in the list unchanged and    *)
(* the scan goes on to the next node.                                      *)
(***************************************************************************)
SmallRemainder(n) ==
    /\ Remainder(n, LastSize, LastAlign) > 0
    /\ Remainder(n, LastSize, LastAlign) < SIZE_OF_LISTNODE

C8_SmallRemainderRejected ==
    last.op = "alloc" =>
        \A i \in 1..Len(last.pre) :
            SmallRemainder(last.pre[i]) =>
                /\ \E k \in 1..Len(FreeList) : FreeList[k] = last.pre[i]
                /\ last.ptr # last.pre[i].addr
                /\ \A j \in (i + 1)..Len(last.pre) :
                       LastFit = j =>
                           \A k \in 1..Len(FreeList) :
                               FreeList[k].addr # last.pre[j].addr

\* the first node of the list was rejected for its remainder and a later
\* node served the request
C8_Witness ==
    /\ last.op = "alloc"
    /\ last.ptr # NULL
    /\ Len(last.pre) >= 2
    /\ SmallRemainder(last.pre[1])
    /\ LastFit >= 2
    /\ last.ptr = last.pre[LastFit].addr

(***************************************************************************)
(* C9 (as stated): the first node with room for the request whose          *)
(* remainder is below the node header size (zero included) is consumed     *)
(* whole: the allocation succeeds from it, no node is created and the      *)
(* list is one node shorter.                                               *)
(***************************************************************************)
HasRoom(n) == Remainder(n, LastSize, LastAlign) >= 0

C9_UndersizedRemainderConsumed ==
    (last.op = "alloc" /\ ~Panicked) =>
        \A i \in 1..Len(last.pre) :
            ( /\ HasRoom(last.pre[i])
              /\ \A k \in 1..(i - 1) : ~HasRoom(last.pre[k])
              /\ Remainder(last.pre[i], LastSize, LastAlign) < SIZE_OF_LISTNODE )
            => /\ last.ptr # NULL
               /\ last.pre[i].addr <= last.ptr
               /\ last.ptr < last.pre[i].addr + last.pre[i].size
               /\ FreeList = RemoveAt(last.pre, i)

(***************************************************************************)
(* C9 (amended): when the scan takes a node whose size equals the widened  *)
(* size (remainder zero), the node is consumed whole: its start is         *)
(* returned, no node is created and the list is one node shorter; a node   *)
(* with a remainder above zero and below the node header size is not       *)
(* consumed and is still in the list after the call.                       *)
(***************************************************************************)
C9_ExactFitConsumed ==
    last.op = "alloc" =>
        /\ (LastFit # 0 /\ last.pre[LastFit].size = LastSize) =>
              /\ last.ptr = last.pre[LastFit].addr
              /\ FreeList = RemoveAt(last.pre, LastFit)
              /\ Len(FreeList) = Len(last.pre) - 1
        /\ \A i \in 1..Len(last.pre) :
              SmallRemainder(last.pre[i]) =>
                  \E k \in 1..Len(FreeList) : FreeList[k] = last.pre[i]

\* an exact fit further down the list was consumed
C9_Witness ==
    /\ last.op = "alloc"
    /\ LastFit >= 2
    /\ last.pre[LastFit].size = LastSize
    /\ last.ptr = last.pre[LastFit].addr
    /\ Len(FreeList) = Len(last.pre) - 1

(***************************************************************************)
(* C10: when the matched block is larger than the allocation, one node     *)
(* covering exactly the leftover, from the end of the allocated range to   *)
(* the block's end, becomes the first node of the list.                    *)
(***************************************************************************)
C10_RemainderPushedFront ==
    (last.op = "alloc" /\ LastFit # 0) =>
        LET b == last.pre[LastFit]
            leftover == b.size - LastSize
        IN  leftover > 0 =>
                FreeList = <<[addr |-> b.addr + LastSize, size |-> leftover]>>
                               \o RemoveAt(last.pre, LastFit)

\* the same statement in the states in which no call has aborted
RemainderPushedFrontUnlessPanicked == Panicked \/ C10_RemainderPushedFront

(***************************************************************************)
(* C5: a context is inside a strategy call only while it owns the lock, so *)
(* at most one context is inside; the allocator's state changes only in a  *)
(* step of the lock's owner; the lock is free when a call has returned,    *)
(* a null-returning allocate included.                                     *)
(***************************************************************************)
AllocatorState == <<head_size, head_next, mem, next, allocations>>

Inside(c) == pc[c] \in {"locked", "done", "panic"}

C5_LockHeldInv ==
    /\ \A c \in Contexts : Inside(c) => lock = c
    /\ \A c \in Contexts : ~Inside(c) => lock # c
    /\ Cardinality({c \in Contexts : Inside(c)}) <= 1

C5_LockHeldStep ==
    /\ (inited /\ AllocatorState' # AllocatorState) =>
           /\ lock # NoOwner /\ lock' = lock
           /\ pc[lock] = "locked"
    /\ \A c \in Contexts :
           (pc[c] = "done" /\ pc'[c] = "idle") => lock' = NoOwner

C5_MutualExclusion == []C5_LockHeldInv /\ [][C5_LockHeldStep]_vars

\* the main path is about to return null from allocate, still owning the
\* lock, while the handler waits for it
C5_Witness ==
    /\ pc["main"] = "done" /\ lock = "main"
    /\ req["main"].op = "alloc" /\ req["main"].ptr = NULL
    /\ pc["irq"] = "spin"

(***************************************************************************)
(* C6: once the handler waits for the lock while the main path owns it,    *)
(* that remains so for ever: the handler keeps spinning and the main path  *)
(* never runs again to release the lock.                                   *)
(***************************************************************************)
Deadlocked == pc["irq"] = "spin" /\ lock = "main"

C6_ReentrantDeadlock == [][Deadlocked => Deadlocked']_vars

\* the handler called allocate or release while the main path was inside a
\* strategy call, and nothing more can happen
C6_Witness ==
    /\ Deadlocked
    /\ pc["main"] \in {"locked", "done"}
    /\ ~ENABLED NextConc

(***************************************************************************)
(* C11: release puts one node at the released address, of the widened size *)
(* of the layout (the size allocate consumed for it), in front of the      *)
(* list: its successor is the former first node and every other node is    *)
(* as before.                                                              *)
(***************************************************************************)
C11_ReleasePushesFront ==
    last.op = "dealloc" =>
        /\ FreeList = <<[addr |-> last.ptr, size |-> LastSize]>> \o last.pre
        /\ ~Panicked

\* a block whose layout was widened has been released in front of two nodes
C11_Witness ==
    /\ last.op = "dealloc"
    /\ LastSize > last.size
    /\ Len(last.pre) >= 2
    /\ FreeList[1] = [addr |-> last.ptr, size |-> LastSize]
    /\ FreeList[2] = last.pre[1]

(***************************************************************************)
(* C12: a release immediately followed by an allocate of the same layout   *)
(* gets the released address back.                                         *)
(***************************************************************************)
C12_LifoReuse ==
    ( /\ last.op = "alloc" /\ before.op = "dealloc"
      /\ last.size = before.size /\ last.align = before.align )
    => last.ptr = before.ptr

\* the same statement for released addresses that are multiples of the
\* layout's alignment
LifoReuseOfAlignedAddress ==
    ( /\ last.op = "alloc" /\ before.op = "dealloc"
      /\ last.size = before.size /\ last.align = before.align
      /\ before.ptr % before.align = 0 )
    => last.ptr = before.ptr

(***************************************************************************)
(* C13: nodes are never merged or enlarged.  Every node of the list lies   *)
(* inside one node of the list before the call, or is the block just       *)
(* released, which is a node of its own; and a request whose widened size  *)
(* exceeds every single node returns null and leaves the list as it was,   *)
(* contiguous nodes notwithstanding.                                       *)
(***************************************************************************)
Within(n, b) == b.addr <= n.addr /\ n.addr + n.size <= b.addr + b.size

C13_NoCoalescing ==
    last.op \in {"alloc", "dealloc"} =>
        /\ \A k \in 1..Len(FreeList) :
              \/ \E i \in 1..Len(last.pre) : Within(FreeList[k], last.pre[i])
              \/ /\ last.op = "dealloc"
                 /\ FreeList[k] = [addr |-> last.ptr, size |-> LastSize]
        /\ last.op = "dealloc" => Len(FreeList) = Len(last.pre) + 1
        /\ ( /\ last.op = "alloc"
             /\ \A i \in 1..Len(last.pre) : last.pre[i].size < LastSize )
           => last.ptr = NULL /\ FreeList = last.pre

\* two contiguous nodes that together have room for the request
Contiguous(n1, n2, s, a) ==
    /\ n1.addr + n1.size = n2.addr
    /\ AlignedStart(n1.addr, a) + s <= n2.addr + n2.size

\* a request failed although two contiguous released blocks would have held it
C13_Witness ==
    /\ last.op = "alloc"
    /\ last.ptr = NULL
    /\ FreeList = last.pre
    /\ \A i \in 1..Len(last.pre) : last.pre[i].size < LastSize
    /\ \E i, j \in 1..Len(last.pre) :
          Contiguous(last.pre[i], last.pre[j], LastSize, LastAlign)

(***************************************************************************)
(* C14: a successful allocate immediately followed by the release of the   *)
(* block it returned leaves the sum of the free nodes' sizes at its value  *)
(* before the allocate.                                                    *)
(***************************************************************************)
RoundTrip ==
    /\ last.op = "dealloc" /\ before.op = "alloc"
    /\ before.ptr # NULL /\ last.ptr = before.ptr
    /\ last.size = before.size /\ last.align = before.align

C14_RoundTripFreeBytes == RoundTrip => SumSizes(FreeList) = before.free

\* a round trip of a widened layout that carved a block in a list of
\* several nodes, so that the list is one node longer than before
C14_Witness ==
    /\ RoundTrip
    /\ LastSize > last.size
    /\ Len(FreeList) >= 3
    /\ FreeList[2].addr = last.ptr + LastSize

(***************************************************************************)
(* C15: when no node of the list passes the fit check for the widened size *)
(* and alignment, be it for lack of room, for the size of the remainder or *)
(* because aligned start + size is not representable, allocate returns     *)
(* null, does not abort, and the list is exactly as before the call.       *)
(***************************************************************************)
Overflows(n, s, a) == AlignedStart(n.addr, a) + s > USIZE_MAX

C15_OutOfMemory ==
    ( /\ last.op = "alloc"
      /\ \A i \in 1..Len(last.pre) :
            \/ Overflows(last.pre[i], LastSize, LastAlign)
            \/ ~Fits(last.pre[i], LastSize, LastAlign) )
    => /\ last.ptr = NULL
       /\ FreeList = last.pre
       /\ ~Panicked

\* a request failed on a list of several nodes, on one of them because the
\* end of the allocation is not representable
C15_Witness ==
    /\ last.op = "alloc"
    /\ last.ptr = NULL
    /\ Len(last.pre) >= 2
    /\ FreeList = last.pre
    /\ \E i \in 1..Len(last.pre) : Overflows(last.pre[i], LastSize, LastAlign)

(***************************************************************************)
(* C16: on the heap [0x1000, 0x2000), init leaves one free node of 4096    *)
(* bytes at 0x1000; allocate(16, 8) on that list returns 0x1000 and leaves *)
(* exactly one node, at 0x1010, of size 4080.                              *)
(***************************************************************************)
C16_FirstAllocation ==
    /\ last.op = "init" => FreeList = <<[addr |-> 4096, size |-> 4096]>>
    /\ ( /\ last.op = "alloc" /\ last.size = 16 /\ last.align = 8
         /\ last.pre = <<[addr |-> 4096, size |-> 4096]>> )
       => /\ last.ptr = 4096
          /\ FreeList = <<[addr |-> 4112, size |-> 4080]>>

\* allocate(16, 8) has run on the fresh heap
C16_Witness ==
    /\ heap_start = 4096 /\ heap_end = 8192
    /\ last.op = "alloc" /\ last.size = 16 /\ last.align = 8
    /\ last.pre = <<[addr |-> 4096, size |-> 4096]>>
    /\ last.ptr = 4096
    /\ Len(FreeList) = 1

(***************************************************************************)
(* C17: for every layout (size, align), size_align yields the alignment    *)
(* max(align, 8) and the size max(size rounded up to a multiple of that    *)
(* alignment, 16): a size that holds a node header, at an alignment a node *)
(* can be written at.                                                      *)
(***************************************************************************)
C17_LayoutWidening ==
    last.op = "size_align" =>
        /\ ~Panicked
        /\ last.align = WidenedAlign(req["main"].align)
        /\ last.size = WidenedSize(req["main"].size, req["main"].align)
        /\ last.size >= SIZE_OF_LISTNODE
        /\ last.align % ALIGN_OF_LISTNODE = 0

\* the values size_align yields when it returns
LayoutWideningWhenReturned ==
    (last.op = "size_align" /\ ~Panicked) =>
        /\ last.align = WidenedAlign(req["main"].align)
        /\ last.size = WidenedSize(req["main"].size, req["main"].align)
        /\ last.size >= SIZE_OF_LISTNODE
        /\ last.align % ALIGN_OF_LISTNODE = 0

(***************************************************************************)
(* C18 (as stated): the addresses returned by successful bump allocations  *)
(* of any sizes >= 0 are strictly increasing in call order and the         *)
(* returned ranges do not overlap.                                         *)
(***************************************************************************)
C18_BumpStrictlyIncreasing ==
    \A i, j \in 1..Len(returned) :
        i < j => /\ returned[i].addr < returned[j].addr
                 /\ Disjoint(returned[i].addr, returned[i].size,
                             returned[j].addr, returned[j].size)

(***************************************************************************)
(* C18 (amended): the addresses returned by successful bump allocations    *)
(* never decrease in call order, every allocation after one of size >= 1   *)
(* gets a strictly higher address, and the returned ranges do not overlap. *)
(***************************************************************************)
C18_BumpMonotone ==
    \A i, j \in 1..Len(returned) :
        i < j => /\ returned[i].addr <= returned[j].addr
                 /\ returned[i].size >= 1 => returned[i].addr < returned[j].addr
                 /\ returned[i].addr + returned[i].size <= returned[j].addr

\* two allocations of size 0 got the same address, and a later allocation
\* got a higher one behind alignment padding
C18_Witness ==
    /\ Len(returned) >= 3
    /\ returned[1].size = 0
    /\ returned[2].addr = returned[1].addr
    /\ returned[3].addr > returned[2].addr + returned[2].size
    /\ returned[3].size >= 1

(***************************************************************************)
(* C19: the bump cursor stays inside the heap, heap_start <= next <=       *)
(* heap_end, in every state, and no call (allocate, release or dump,       *)
(* successful or not) decreases it.                                        *)
(***************************************************************************)
C19_CursorInv == heap_start <= next /\ next <= heap_end

C19_CursorStep == next' >= next

C19_BumpCursor == []C19_CursorInv /\ [][C19_CursorStep]_vars

\* the heap is used up to its last byte and a dump has printed it so: the
\* cursor is at heap_end and no byte is free
C19_Witness ==
    /\ strategy = "bump"
    /\ next = heap_end
    /\ allocations >= 2
    /\ last.op = "dump"
    /\ RowShows(1, TEXT_HEAP_START \o AltHex(heap_start) \o TEXT_HEAP_END
                       \o AltHex(heap_end) \o TEXT_NEXT_POINTER \o AltHex(heap_end))
    /\ RowShows(3, TEXT_FREE \o Dec(0) \o TEXT_BYTES)

\* the heap is used up to its last byte, a request has failed since, and a
\* block has been released
ReleasedAtHeapEnd ==
    /\ strategy = "bump"
    /\ next = heap_end
    /\ last.op = "alloc" /\ last.ptr = NULL /\ last.size > 0
    /\ Len(returned) > Cardinality(live)

(***************************************************************************)
(* C20: a bump allocate returns null exactly when the cursor aligned up    *)
(* plus the size is not representable or lies beyond heap_end; it never    *)
(* aborts, and a block ending exactly at heap_end is granted.              *)
(***************************************************************************)
CandidateEnd == AlignedStart(last.pre[1].addr, last.align) + last.size

C20_BumpOutOfMemory ==
    last.op = "alloc" =>
        /\ ~Panicked
        /\ last.ptr = NULL <=> (CandidateEnd > USIZE_MAX \/ CandidateEnd > heap_end)
        /\ CandidateEnd = heap_end =>
               last.ptr = AlignedStart(last.pre[1].addr, last.align)

\* a block ending exactly at heap_end has been granted behind padding
C20_Witness ==
    /\ strategy = "bump"
    /\ last.op = "alloc" /\ last.size >= 1
    /\ last.ptr # NULL
    /\ last.ptr > last.pre[1].addr
    /\ last.ptr + last.size = heap_end
    /\ next = heap_end

\* a request has failed because its end is not representable
BumpOverflowRefused ==
    /\ strategy = "bump"
    /\ last.op = "alloc" /\ last.ptr = NULL
    /\ CandidateEnd > USIZE_MAX

(***************************************************************************)
(* C21: a successful bump allocate returns the smallest multiple of the    *)
(* requested alignment that is >= the cursor before the call, and leaves   *)
(* the cursor at that address plus the requested size.                     *)
(***************************************************************************)
C21_BumpAllocSuccess ==
    (last.op = "alloc" /\ last.ptr # NULL) =>
        /\ last.ptr % last.align = 0
        /\ last.ptr >= last.pre[1].addr
        /\ \A y \in last.pre[1].addr..(last.ptr - 1) : y % last.align # 0
        /\ next = last.ptr + last.size

\* an allocation was granted behind alignment padding
C21_Witness ==
    /\ strategy = "bump"
    /\ last.op = "alloc" /\ last.ptr # NULL
    /\ last.size >= 1 /\ last.align > 1
    /\ last.ptr > last.pre[1].addr
    /\ next = last.ptr + last.size

(***************************************************************************)
(* C22: on the bump heap [0x1000, 0x2000), when the first three            *)
(* successful allocations are of size 8 and alignment 4 they return        *)
(* 0x1000, 0x1008 and 0x1010 in that order, and an allocation of size      *)
(* 4081 that follows them returns null.                                    *)
(***************************************************************************)
ThreeOfEight ==
    /\ strategy = "bump" /\ heap_start = 4096
    /\ Len(returned) >= 3
    /\ \A i \in 1..3 : returned[i].size = 8 /\ returned[i].align = 4

C22_BumpExhaustion ==
    ThreeOfEight =>
        /\ returned[1].addr = 4096
        /\ returned[2].addr = 4104
        /\ returned[3].addr = 4112
        /\ (Len(returned) = 3 /\ last.op = "alloc" /\ last.size = 4081)
               => last.ptr = NULL

\* the three allocations were granted and the request of 4081 bytes refused
C22_Witness ==
    /\ ThreeOfEight /\ heap_end = 8192
    /\ Len(returned) = 3
    /\ <<returned[1].addr, returned[2].addr, returned[3].addr>> = <<4096, 4104, 4112>>
    /\ last.op = "alloc" /\ last.size = 4081 /\ last.align = 4
    /\ last.ptr = NULL

(***************************************************************************)
(* C23 (as stated): after these three allocations the free space           *)
(* heap_end - next is 0xFF0 = 4080 bytes.                                  *)
(***************************************************************************)
C23_BumpRemaining0xFF0 ==
    (ThreeOfEight /\ Len(returned) = 3) => heap_end - next = 4080

(***************************************************************************)
(* C23 (amended): after these three allocations the cursor is at 0x1018    *)
(* and the free space heap_end - next is 0xFE8 = 4072 bytes, which is what *)
(* a dump reports.                                                         *)
(***************************************************************************)
C23_BumpRemaining ==
    (ThreeOfEight /\ Len(returned) = 3) =>
        /\ next = 4120
        /\ heap_end - next = 4072
        /\ last.op = "dump" => last.pre = <<[addr |-> 4120, size |-> 4072]>>

\* a dump after the three allocations
C23_Witness ==
    /\ ThreeOfEight /\ heap_end = 8192
    /\ Len(returned) = 3
    /\ last.op = "dump"
    /\ last.pre[1].size = 4072
    /\ RowShows(3, TEXT_FREE \o Dec(4072) \o TEXT_BYTES)

(***************************************************************************)
(* C24: a bump release, of whatever address and layout, leaves heap_start, *)
(* heap_end, next and the allocation count as they are; hence every        *)
(* address allocate returns is at or above the cursor before the call and  *)
(* above every block returned earlier, released or not.                    *)
(***************************************************************************)
C24_ReleaseStep ==
    last'.op = "dealloc" =>
        UNCHANGED <<heap_start, heap_end, next, allocations>>

C24_NeverHandedOutAgain ==
    /\ last.op = "dealloc" => last.pre = <<[addr |-> next, size |-> heap_end - next]>>
    /\ (last.op = "alloc" /\ last.ptr # NULL) =>
          /\ last.ptr >= last.pre[1].addr
          /\ \A i \in 1..(Len(returned) - 1) :
                last.ptr >= returned[i].addr + returned[i].size

C24_BumpReleaseNoOp == []C24_NeverHandedOutAgain /\ [][C24_ReleaseStep]_vars

\* after the release of a block of at least one byte, printed in the colour
\* the caller assigned before it, an allocation was granted
C24_Witness ==
    /\ strategy = "bump"
    /\ last.op = "alloc" /\ last.ptr # NULL
    /\ \E i \in 1..(Len(returned) - 1) :
          /\ returned[i].size >= 1
          /\ returned[i] \notin live
    /\ Len(returned) >= 2
    /\ last.ptr >= returned[Len(returned) - 1].addr + returned[Len(returned) - 1].size
    /\ RowShows(0, TEXT_NO_DEALLOC) /\ getpos(crt) = [x |-> 0, y |-> 1]
    /\ RowColored(0, Len(TEXT_NO_DEALLOC), LightRed)

\* a release of an address that no allocation returned
ForeignReleaseDone ==
    /\ strategy = "bump"
    /\ last.op = "dealloc"
    /\ \A i \in 1..Len(returned) : returned[i].addr # last.ptr
    /\ Len(returned) >= 1
    /\ cga.op = "println" /\ RowShows(0, TEXT_NO_DEALLOC)

(***************************************************************************)
(* C25: the bump allocation count equals the number of successful          *)
(* allocations since construction: a step changes it only by adding one,   *)
(* and only a successful allocate does; refused allocations, releases and  *)
(* dumps leave it as it is.                                                *)
(***************************************************************************)
C25_CountInv == allocations = Len(returned)

C25_CountStep ==
    /\ allocations' >= allocations
    /\ allocations' # allocations =>
          /\ allocations' = allocations + 1
          /\ last'.op = "alloc" /\ last'.ptr # NULL
    /\ (last'.op = "alloc" /\ last'.ptr = NULL) => allocations' = allocations
    /\ last'.op \in {"dealloc", "dump"} => allocations' = allocations

C25_AllocationCount == []C25_CountInv /\ [][C25_CountStep]_vars

\* two allocations were granted, one of them was released, and a request
\* has just been refused
C25_Witness ==
    /\ strategy = "bump"
    /\ allocations = 2 /\ Len(returned) = 2
    /\ Cardinality(live) = 1
    /\ last.op = "alloc" /\ last.ptr = NULL

(***************************************************************************)
(* C26 (as stated): on the free-list strategy, for every heap region with  *)
(* start < end the free list after init is exactly one node at heap_start  *)
(* of size heap_end - heap_start.                                          *)
(***************************************************************************)
WholeHeap == <<[addr |-> heap_start, size |-> heap_end - heap_start]>>

C26_InitAnyRegion ==
    (last.op = "init" /\ strategy = "list" /\ heap_start < heap_end) =>
        FreeList = WholeHeap

(***************************************************************************)
(* C26 (amended): on the free-list strategy, when heap_start is a multiple *)
(* of the node alignment 8 and the heap has at least the 16 bytes of a     *)
(* node header, the free list after init is exactly one node at heap_start *)
(* of size heap_end - heap_start; on any other region init aborts on an    *)
(* assertion and the list stays empty.  On the bump strategy init changes  *)
(* no field of the allocator.                                              *)
(***************************************************************************)
NodeRegion ==
    /\ heap_start % ALIGN_OF_LISTNODE = 0
    /\ heap_end - heap_start >= SIZE_OF_LISTNODE

C26_InitInv ==
    last.op = "init" =>
        IF strategy = "list"
        THEN IF NodeRegion
             THEN FreeList = WholeHeap /\ ~Panicked
             ELSE FreeList = <<>> /\ Panicked
        ELSE /\ ~Panicked
             /\ last.pre = <<[addr |-> next, size |-> heap_end - next]>>

C26_InitStep ==
    (last'.op = "init" /\ strategy = "bump") =>
        UNCHANGED <<heap_start, heap_end, next, allocations, head_size,
                    head_next, mem>>

C26_InitPostcondition == []C26_InitInv /\ [][C26_InitStep]_vars

\* init has written the node spanning a heap whose start is a multiple of
\* 8 and not of 16
C26_Witness ==
    /\ strategy = "list"
    /\ last.op = "init"
    /\ NodeRegion /\ heap_start % (2 * ALIGN_OF_LISTNODE) # 0
    /\ FreeList = WholeHeap
    /\ mem[heap_start].next = NULL

\* init has aborted on a region that cannot hold a node
InitAborted ==
    /\ strategy = "list" /\ last.op = "init" /\ ~NodeRegion /\ Panicked

\* init of the bump strategy after an allocation of the main path
BumpInitAfterAlloc ==
    /\ strategy = "bump" /\ last.op = "init" /\ next > heap_start

(***************************************************************************)
(* C27: a dump changes nothing of either strategy: the bounds, the bump    *)
(* cursor and count, and the free list with its nodes, sizes and order     *)
(* are as before, so every allocate that follows returns what it would     *)
(* have returned without the dump.                                         *)
(***************************************************************************)
C27_DumpInv == last.op = "dump" => last.pre = FreeBefore /\ ~Panicked

C27_DumpStep ==
    last'.op = "dump" =>
        /\ UNCHANGED <<heap_start, heap_end, head_size, head_next, mem, next,
                       allocations>>
        /\ \A size \in DumpSizes, align \in ReqAligns :
              StrategyAlloc(size, align)' = StrategyAlloc(size, align)

C27_DumpReadOnly == []C27_DumpInv /\ [][C27_DumpStep]_vars

\* a dump of a free list of three nodes, in the colour of the demo's dumps
C27_Witness ==
    /\ strategy = "list"
    /\ last.op = "dump"
    /\ Len(last.pre) >= 3
    /\ FreeList = last.pre
    /\ RowShows(0, TEXT_LIST_DUMP)
    /\ RowColored(0, Len(TEXT_LIST_DUMP), White)
    /\ \A i \in 1..Len(last.pre) : RowShows(i, FreeBlockLine(last.pre[i]))
    /\ RowShows(Len(last.pre) + 1, TEXT_LIST_END)
    /\ getpos(crt) = [x |-> 0, y |-> Len(last.pre) + 2]

\* a dump of the bump strategy after an allocation
BumpDumped ==
    /\ strategy = "bump" /\ last.op = "dump" /\ allocations >= 1
    /\ RowShows(0, TEXT_BUMP_INFO)
    /\ RowShows(5, TEXT_ALLOCATIONS \o Dec(allocations))
    /\ getpos(crt) = [x |-> 0, y |-> 6]

(***************************************************************************)
(* C28: the chain from head.next is finite and acyclic in every state, no  *)
(* allocate or release fails to run to completion, and the search of an    *)
(* allocate examines each free node at most once, in one pass.             *)
(***************************************************************************)
\* the chain ends at NULL after at most as many nodes as the heap holds,
\* no address twice, and every node of the heap is on it
Acyclic ==
    LET fl == FreeList
    IN  /\ Len(fl) = Cardinality(DOMAIN mem)
        /\ \A i, j \in 1..Len(fl) : fl[i].addr = fl[j].addr => i = j
        /\ \A a \in DOMAIN mem : mem[a].next \in DOMAIN mem \cup {NULL}

\* the nodes the loop of find_free_block examines, in order
RECURSIVE Examined(_, _, _, _, _)
Examined(m, cur, size, align, fuel) ==
    IF cur = NULL \/ fuel = 0 THEN <<>>
    ELSE IF check_block_for_alloc(m, cur, size, align).ok
         THEN <<cur>>
         ELSE <<cur>> \o Examined(m, m[cur].next, size, align, fuel - 1)

ExaminedOnce ==
    (strategy = "list" /\ last'.op = "alloc") =>
        LET sa == size_align(last'.size, last'.align)
            e == Examined(mem, head_next, sa.size, sa.align,
                          2 * Cardinality(DOMAIN mem) + 1)
        IN  /\ Len(e) <= Len(FreeList)
            /\ \A i, j \in 1..Len(e) : e[i] = e[j] => i = j
            /\ \A i \in 1..Len(e) : e[i] = FreeList[i].addr

C28_Termination == [](Acyclic /\ ~Panicked) /\ [][ExaminedOnce]_vars

\* the same statement without the calls that abort
TerminationUnlessAborted == []Acyclic /\ [][ExaminedOnce]_vars

\* an allocate has examined three nodes and taken none
ExaminedThree ==
    /\ strategy = "list" /\ last.op = "alloc" /\ last.ptr = NULL
    /\ Len(last.pre) >= 3 /\ ~Panicked

(***************************************************************************)
(* C29: allocator::init is the first statement of startup and runs to      *)
(* completion, once, before any other subsystem is initialised and before  *)
(* interrupts are enabled: no subsystem and no interrupt handler issues an *)
(* allocation before init has finished.                                    *)
(***************************************************************************)
C29_OrderInv ==
    /\ ~inited => /\ pc["main"] = "allocator::init"
                  /\ pc["irq"] = "masked"
                  /\ last = NoLast /\ live = {} /\ lock = NoOwner
    /\ last.op = "init" => ~Panicked
    /\ pc["irq"] # "masked" => inited /\ pc["main"] = "loop"

C29_OrderStep ==
    /\ ~inited => last'.op = "init" /\ inited' /\ pc'["irq"] = "masked"
    /\ inited => inited' /\ (last' # last => last'.op = "alloc")

C29_StartupOrdering == []C29_OrderInv /\ [][C29_OrderStep]_vars

\* a subsystem has allocated during startup, interrupts still masked
C29_Witness ==
    /\ inited /\ pc["irq"] = "masked" /\ pc["main"] = "keyboard::plugin"
    /\ last.op = "alloc" /\ last.ptr # NULL

\* a handler has allocated after startup
HandlerAllocated ==
    /\ pc["main"] = "loop" /\ pc["irq"] = "idle"
    /\ last.op = "alloc" /\ last.ptr # NULL /\ Cardinality(live) = MaxAllocs

(***************************************************************************)
(* C30: on both strategies every address returned for a request lies in    *)
(* the heap together with the requested size, heap_start <= a and          *)
(* a + s <= heap_end, on the free-list strategy with the widened size      *)
(* too; every node of the free list lies inside [heap_start, heap_end).    *)
(***************************************************************************)
InsideHeap(addr, size) == heap_start <= addr /\ addr + size <= heap_end

BlockInsideHeap(addr, size, align) ==
    /\ InsideHeap(addr, size)
    /\ strategy = "list" => InsideHeap(addr, WidenedSize(size, align))

C30_InsideHeap ==
    /\ (last.op = "alloc" /\ last.ptr # NULL) =>
           BlockInsideHeap(last.ptr, last.size, last.align)
    /\ \A x \in live : BlockInsideHeap(x.addr, x.size, x.align)
    /\ \A i \in 1..Len(returned) :
           BlockInsideHeap(returned[i].addr, returned[i].size, returned[i].align)
    /\ \A i \in 1..Len(FreeList) : InsideHeap(FreeList[i].addr, FreeList[i].size)
    /\ \A a \in DOMAIN mem : InsideHeap(a, mem[a].size)

\* the free-list strategy has handed out the last bytes of the heap
C30_Witness ==
    /\ strategy = "list"
    /\ last.op = "alloc" /\ last.ptr # NULL
    /\ last.ptr + WidenedSize(last.size, last.align) = heap_end
    /\ Cardinality(live) >= 2

\* the bump strategy has handed out the last bytes of a heap that ends
\* near the top of the address space
BumpLastBytes ==
    /\ strategy = "bump" /\ heap_end = HighHeapEnd
    /\ last.op = "alloc" /\ last.ptr # NULL /\ last.size > 0
    /\ last.ptr + last.size = heap_end

\* a node released at the top of a heap that ends near the top of the
\* address space
NodeAtHeapEnd ==
    /\ strategy = "list" /\ heap_end = HighHeapEnd
    /\ last.op = "dealloc"
    /\ \E i \in 1..Len(FreeList) :
           FreeList[i].addr + FreeList[i].size = heap_end

(***************************************************************************)
(* C31: a bump allocate that returns null changes nothing: the cursor and  *)
(* the allocation count are as before the call, no alignment padding is    *)
(* consumed, so a request that fitted before the failed call is granted    *)
(* after it exactly as it would have been before.                          *)
(***************************************************************************)
C31_FailInv ==
    (strategy = "bump" /\ last.op = "alloc" /\ last.ptr = NULL) =>
        next = last.pre[1].addr

C31_FailStep ==
    (strategy = "bump" /\ last'.op = "alloc" /\ last'.ptr = NULL) =>
        /\ next' = next /\ allocations' = allocations
        /\ \A size \in BumpSizes, align \in BumpAligns :
              StrategyAlloc(size, align)' = StrategyAlloc(size, align)

C31_BumpFailureNoChange == []C31_FailInv /\ [][C31_FailStep]_vars

\* a request was refused whose padding lies inside the heap, and a smaller
\* request still fits at the cursor
C31_Witness ==
    /\ strategy = "bump"
    /\ last.op = "alloc" /\ last.ptr = NULL
    /\ next % last.align # 0
    /\ AlignedStart(next, last.align) <= heap_end
    /\ \E size \in BumpSizes : size > 0 /\ size < last.size /\
          StrategyAlloc(size, 1).ptr = next

(***************************************************************************)
(* C32: between construction and init the free list is empty: the sentinel *)
(* head holds heap_size and has no successor, every allocate returns null  *)
(* and changes nothing.  In every state the head's size field is the heap  *)
(* size it was constructed with, and an address returned by allocate is    *)
(* the address of a node that was in the list, never the sentinel.         *)
(***************************************************************************)
C32_BeforeInitInv ==
    /\ ~inited => /\ head_next = NULL /\ FreeList = <<>> /\ mem = << >>
                  /\ live = {}
                  /\ last.op = "alloc" => last.ptr = NULL
    /\ head_size = heap_end - heap_start
    /\ (last.op = "alloc" /\ last.ptr # NULL) =>
           \E i \in 1..Len(last.pre) : last.pre[i].addr = last.ptr

C32_BeforeInitStep ==
    /\ head_size' = head_size
    /\ (~inited /\ last'.op = "alloc") =>
           /\ last'.ptr = NULL
           /\ UNCHANGED <<head_next, mem, next, allocations, live>>

C32_BeforeInit == []C32_BeforeInitInv /\ [][C32_BeforeInitStep]_vars

\* an allocate before init has returned null
C32_Witness ==
    /\ strategy = "list" /\ ~inited
    /\ last.op = "alloc" /\ last.size > 0 /\ last.ptr = NULL
    /\ head_size = HeapSize /\ head_next = NULL

\* an allocate after init has returned a node of the list
NodeReturnedAfterInit ==
    /\ strategy = "list" /\ inited
    /\ last.op = "alloc" /\ last.ptr # NULL /\ Len(last.pre) >= 2

(***************************************************************************)
(* Vocabulary of the CGA properties                                        *)
(***************************************************************************)
\* the cells of the screen and the bytes of the text buffer
Cells == CGA_ROWS * CGA_COLUMNS
BufferBytes == 2 * Cells

\* the two bytes of the cell at (x, y) hold character ch and attribute a
CellHolds(v, x, y, ch, a) ==
    LET o == (y * CGA_COLUMNS + x) * 2
    IN  /\ o \in DOMAIN v /\ v[o] = ch
        /\ o + 1 \in DOMAIN v /\ v[o + 1] = a

\* v with the cell at (x, y) set to character ch and attribute a
WithCell(v, x, y, ch, a) ==
    LET o == (y * CGA_COLUMNS + x) * 2
    IN  [p \in DOMAIN v \cup {o, o + 1} |->
            IF p = o THEN ch ELSE IF p = o + 1 THEN a ELSE v[p]]

\* w is v scrolled up by one row: rows 0..23 of w hold rows 1..24 of v,
\* row 24 of w is blank with the standard attribute
ScrolledUp(v, w) ==
    /\ \A o \in 0..(BufferBytes - 2 * CGA_COLUMNS - 1) :
          /\ o \in DOMAIN w <=> (o + 2 * CGA_COLUMNS) \in DOMAIN v
          /\ o \in DOMAIN w => w[o] = v[o + 2 * CGA_COLUMNS]
    /\ \A x \in 0..(CGA_COLUMNS - 1) :
          CellHolds(w, x, CGA_ROWS - 1, BLANK, CGA_STD_ATTR)

(***************************************************************************)
(* C33: show writes only inside the text buffer: with x < 80 and y < 25    *)
(* exactly the two bytes of the cell at (x, y), offsets (y*80+x)*2 and     *)
(* (y*80+x)*2+1, are written; with any other coordinates, x = 80 and       *)
(* y = 25 included, nothing is written.  No byte at offset 4000 or beyond  *)
(* is ever written.                                                        *)
(***************************************************************************)
C33_ShowInv == \A o \in DOMAIN vram : o < BufferBytes

C33_ShowStep ==
    cga'.op = "show" =>
        IF cga'.x < CGA_COLUMNS /\ cga'.y < CGA_ROWS
        THEN vram' = WithCell(vram, cga'.x, cga'.y, cga'.b, cga'.attr)
        ELSE vram' = vram

C33_ShowInsideBuffer == []C33_ShowInv /\ [][C33_ShowStep]_vars

\* the same for the coordinates other than x = 80 and y = 25
ShowStepOffTheEdge ==
    (cga'.op = "show" /\ cga'.x # CGA_COLUMNS /\ cga'.y # CGA_ROWS) =>
        C33_ShowStep

ShowInsideOffTheEdge == [][ShowStepOffTheEdge]_vars

\* show has written the last cell of the screen
LastCellShown ==
    /\ cga.op = "show" /\ cga.x = CGA_COLUMNS - 1 /\ cga.y = CGA_ROWS - 1
    /\ CellHolds(vram, cga.x, cga.y, cga.b, cga.attr)

(***************************************************************************)
(* C34: print_byte of a byte other than newline, with the cursor on the    *)
(* screen, shows the byte at the cursor cell and moves the cursor to the   *)
(* next cell in row-major order: to (x+1, y) when x < 79, from column 79   *)
(* to column 0 of the next row, scrolling up when already on row 24; the   *)
(* next byte therefore never overwrites it.                                *)
(***************************************************************************)
C34_PrintStep ==
    (cga'.op = "print_byte" /\ cga'.b # NEWLINE /\ cga'.pos < Cells) =>
        LET shown == WithCell(vram, cga'.x, cga'.y, cga'.b, cga'.attr)
        IN  IF cga'.pos + 1 < Cells
            THEN /\ vram' = shown
                 /\ CursorIndex(crt') = cga'.pos + 1
            ELSE /\ ScrolledUp(shown, vram')
                 /\ CursorIndex(crt') = (CGA_ROWS - 1) * CGA_COLUMNS

C34_LineWrap == [][C34_PrintStep]_vars

\* the same for a cursor before the last column
PrintStepBeforeLastColumn ==
    (cga'.op = "print_byte" /\ cga'.x < CGA_COLUMNS - 1) => C34_PrintStep

PrintAdvancesBeforeLastColumn == [][PrintStepBeforeLastColumn]_vars

\* a byte was printed in the last column and the cursor has stayed on it
CursorStuckInLastColumn ==
    /\ cga.op = "print_byte" /\ cga.b # NEWLINE
    /\ cga.x = CGA_COLUMNS - 1 /\ cga.pos < Cells
    /\ CursorIndex(crt) = cga.pos

(***************************************************************************)
(* C35: getpos after setpos(x, y) returns (min(x, 79), min(y, 24)); after  *)
(* a clear, setpos, print_byte or scrollup the cursor index is below 2000, *)
(* getpos returns x < 80 and y < 25, and no later call changes that.       *)
(***************************************************************************)
CursorOnScreen ==
    /\ CursorIndex(crt) < Cells
    /\ getpos(crt).x < CGA_COLUMNS /\ getpos(crt).y < CGA_ROWS

C35_CursorInv ==
    /\ cga.op = "setpos" =>
          /\ getpos(crt).x = (IF cga.x < CGA_COLUMNS - 1 THEN cga.x
                              ELSE CGA_COLUMNS - 1)
          /\ getpos(crt).y = (IF cga.y < CGA_ROWS - 1 THEN cga.y
                              ELSE CGA_ROWS - 1)
    /\ cga.op \in {"clear", "setpos", "print_byte", "scrollup"} => CursorOnScreen

C35_CursorStep == CursorOnScreen => CursorOnScreen'

C35_CursorRoundTrip == []C35_CursorInv /\ [][C35_CursorStep]_vars

\* setpos was called with a column and a row beyond the screen
C35_Witness ==
    /\ cga.op = "setpos" /\ cga.x >= CGA_COLUMNS /\ cga.y >= CGA_ROWS
    /\ getpos(crt) = [x |-> CGA_COLUMNS - 1, y |-> CGA_ROWS - 1]

\* a byte was printed with the cursor registers as the firmware left them,
\* beyond the screen
PrintedFromFirmwareCursor ==
    /\ cga.op = "print_byte" /\ cga.n = 1 /\ cga.pos >= Cells
    /\ CursorOnScreen

(***************************************************************************)
(* C36: print_byte of a newline with the cursor on row y < 24 moves the    *)
(* cursor to (0, y+1) and changes no cell; on row 24 the screen scrolls    *)
(* once: every row r of 0..23 holds the character and attribute bytes row  *)
(* r+1 held, row 24 is blank with the standard attribute and the cursor    *)
(* is at (0, 24).                                                          *)
(***************************************************************************)
C36_NewlineStep ==
    (cga'.op = "print_byte" /\ cga'.b = NEWLINE /\ cga'.pos < Cells) =>
        IF cga'.y < CGA_ROWS - 1
        THEN /\ vram' = vram
             /\ getpos(crt') = [x |-> 0, y |-> cga'.y + 1]
        ELSE /\ ScrolledUp(vram, vram')
             /\ \A o \in DOMAIN vram' : o >= BufferBytes =>
                    o \in DOMAIN vram /\ vram'[o] = vram[o]
             /\ getpos(crt') = [x |-> 0, y |-> CGA_ROWS - 1]

C36_NewlineAndScroll == [][C36_NewlineStep]_vars

\* a newline on row 24 has scrolled a printed byte up to row 23
C36_Witness ==
    /\ cga.op = "print_byte" /\ cga.b = NEWLINE /\ cga.y = CGA_ROWS - 1
    /\ \E x \in 0..(CGA_COLUMNS - 1) : \E b \in PrintBytes \ {NEWLINE} :
          (CGA_ROWS - 2) * CGA_COLUMNS * 2 + 2 * x \in DOMAIN vram
          /\ vram[(CGA_ROWS - 2) * CGA_COLUMNS * 2 + 2 * x] = b
    /\ CellHolds(vram, 0, CGA_ROWS - 1, BLANK, CGA_STD_ATTR)
    /\ getpos(crt) = [x |-> 0, y |-> CGA_ROWS - 1]

\* a newline on a row above the last one
NewlineAboveLastRow ==
    /\ cga.op = "print_byte" /\ cga.b = NEWLINE /\ cga.y < CGA_ROWS - 1
    /\ getpos(crt) = [x |-> 0, y |-> cga.y + 1]

====
